---- MODULE Spec2Model ----
(***************************************************************************)
(* Classification tree (ctree): a tree keyed by a fixed sequence of key    *)
(* levels with the stored elements in the leaves, its unfiltered iterator  *)
(* and its range iterator.                                                 *)
(*                                                                         *)
(* A leaf is a record [m_data |-> sequence of [data, metadata]]; an        *)
(* internal node is [m_children |-> sequence of [first, second], m_size].  *)
(* C++ indices and container iterators are 0-based offsets: offset i is    *)
(* element i + 1 of the TLA+ sequence, and offset Len(s) is end().         *)
(***************************************************************************)
EXTENDS Integers, Sequences, FiniteSets, TLC

VARIABLES
    depth,      \* number of key levels of the tree type (sizeof...(keys_t) at the root)
    ordered,    \* LessthanComparable<data_t>
    mergeable,  \* Mergeable<metadata_t>
    kd,         \* the tree
    other,      \* a second tree of the same type, the argument of merge
    hist,       \* bookkeeping of the calls made on kd; paths[n] is the keys of the n-th element built
    last,       \* the last mutating call on kd, its arguments, its result and kd before it
    iter        \* the iterator object in use on kd, if any

vars == <<depth, ordered, mergeable, kd, other, hist, last, iter>>

\* Bounds of the model.
MaxDepth == 2
MaxKey == 2
MaxVal == 2
MaxAdds == 3

MaxStray == 2
MaxLen == 34
MaxRun == 3
MaxWide == 5
MaxUpper == 2

\* The size up to which search scans linearly.
LinearThreshold == 32

Keys == 1..MaxKey
Vals == 1..MaxVal
Depths == 0..MaxDepth

RECURSIVE KeyPaths(_)
KeyPaths(d) ==
    IF d = 0 THEN {<<>>}
    ELSE {<<k>> \o p : k \in Keys, p \in KeyPaths(d - 1)}

\* A faulty conversion: every call counts as an added element.
b2n_always(b) == 1

\* The conversion of the bool that add returns in m_size += added.
b2n(b) == IF b THEN 1 ELSE 0

\* A faulty insertion: the element goes to the back whatever the offset.
InsertAt_back(s, i, e) == Append(s, e)

\* A faulty insertion: the element goes to the front whatever the offset.
InsertAt_front(s, i, e) == <<e>> \o s

\* std::vector::insert at offset i.
InsertAt(s, i, e) == SubSeq(s, 1, i) \o <<e>> \o SubSeq(s, i + 1, Len(s))

\* Op applied to the value of e, which is evaluated once however many
\* times Op uses it.
Bind(e, Op(_)) == CHOOSE r \in {Op(x) : x \in {e}} : TRUE

IsLeaf(node) == "m_data" \in DOMAIN node

RECURSIVE EmptyNode(_)
EmptyNode(d) ==
    IF d = 0 THEN [m_data |-> <<>>]
    ELSE [m_children |-> <<>>, m_size |-> 0]

(***************************************************************************)
(* search.hpp: position and found flag of a key in a sorted vector.        *)
(***************************************************************************)
RECURSIVE pair_linear_loop(_, _, _)
pair_linear_loop(v, value, i) ==
    IF i < Len(v) - 1 THEN
        IF value < v[i + 1].first THEN <<i, FALSE>>
        ELSE IF v[i + 1].first < value THEN
            IF value < v[i + 2].first THEN <<i + 1, FALSE>>
            ELSE pair_linear_loop(v, value, i + 1)
        ELSE <<i, TRUE>>
    ELSE IF v[Len(v)].first < value THEN <<Len(v), FALSE>>
    ELSE <<Len(v) - 1, TRUE>>

\* A faulty linear search: the case of one pair is left to the loop.
pair_search_linear_loop_only(v, value) ==
    IF Len(v) = 0 THEN <<0, FALSE>> ELSE pair_linear_loop(v, value, 0)

pair_search_linear(v, value) ==
    IF Len(v) = 0 THEN <<0, FALSE>>
    ELSE IF Len(v) = 1 THEN
        IF value < v[1].first THEN <<0, FALSE>>
        ELSE IF v[1].first < value THEN <<1, FALSE>>
        ELSE <<0, TRUE>>
    ELSE pair_linear_loop(v, value, 0)

RECURSIVE pair_binary_loop(_, _, _, _)
pair_binary_loop(v, value, i, j) ==
    IF i < j THEN
        LET m == (i + j) \div 2 IN
        IF value < v[m + 1].first THEN
            IF m = 0 THEN <<0, FALSE>> ELSE pair_binary_loop(v, value, i, m - 1)
        ELSE IF v[m + 1].first < value THEN
            IF m = Len(v) - 1 THEN <<Len(v), FALSE>>
            ELSE pair_binary_loop(v, value, m + 1, j)
        ELSE <<m, TRUE>>
    ELSE IF value < v[i + 1].first THEN <<i, FALSE>>
    ELSE IF v[i + 1].first < value THEN <<i + 1, FALSE>>
    ELSE <<i, TRUE>>

pair_search_binary(v, value) ==
    IF Len(v) = 0 THEN <<0, FALSE>>
    ELSE IF Len(v) = 1 THEN
        IF value < v[1].first THEN <<0, FALSE>>
        ELSE IF v[1].first < value THEN <<1, FALSE>>
        ELSE <<0, TRUE>>
    ELSE pair_binary_loop(v, value, 0, Len(v) - 1)

\* search over the (key, child) pairs of an internal node.
search_pair(v, value) ==
    IF Len(v) <= LinearThreshold THEN pair_search_linear(v, value)
    ELSE pair_search_binary(v, value)

RECURSIVE element_linear_loop(_, _, _)
element_linear_loop(v, value, i) ==
    IF i < Len(v) - 1 THEN
        IF value < v[i + 1].data THEN <<i, FALSE>>
        ELSE IF v[i + 1].data < value THEN
            IF value < v[i + 2].data THEN <<i + 1, FALSE>>
            ELSE element_linear_loop(v, value, i + 1)
        ELSE <<i, TRUE>>
    ELSE IF v[Len(v)].data < value THEN <<Len(v), FALSE>>
    ELSE <<Len(v) - 1, TRUE>>

element_search_linear(v, value) ==
    IF Len(v) = 0 THEN <<0, FALSE>>
    ELSE IF Len(v) = 1 THEN
        IF value < v[1].data THEN <<0, FALSE>>
        ELSE IF v[1].data < value THEN <<1, FALSE>>
        ELSE <<0, TRUE>>
    ELSE element_linear_loop(v, value, 0)

RECURSIVE element_binary_loop(_, _, _, _)
element_binary_loop(v, value, i, j) ==
    IF i < j THEN
        LET m == (i + j) \div 2 IN
        IF value < v[m + 1].data THEN
            IF m = 0 THEN <<0, FALSE>> ELSE element_binary_loop(v, value, i, m - 1)
        ELSE IF v[m + 1].data < value THEN
            IF m = Len(v) - 1 THEN <<Len(v), FALSE>>
            ELSE element_binary_loop(v, value, m + 1, j)
        ELSE <<m, TRUE>>
    ELSE IF value < v[i + 1].data THEN <<i, FALSE>>
    ELSE IF v[i + 1].data < value THEN <<i + 1, FALSE>>
    ELSE <<i, TRUE>>

\* A faulty binary search: it starts after the first element.
element_search_binary_from_one(v, value) ==
    IF Len(v) < 2 THEN <<0, FALSE>> ELSE element_binary_loop(v, value, 1, Len(v) - 1)

element_search_binary(v, value) ==
    IF Len(v) = 0 THEN <<0, FALSE>>
    ELSE IF Len(v) = 1 THEN
        IF value < v[1].data THEN <<0, FALSE>>
        ELSE IF v[1].data < value THEN <<1, FALSE>>
        ELSE <<0, TRUE>>
    ELSE element_binary_loop(v, value, 0, Len(v) - 1)

\* search over the elements of a leaf.
search_element(v, value) ==
    IF Len(v) <= LinearThreshold THEN element_search_linear(v, value)
    ELSE element_search_binary(v, value)

(***************************************************************************)
(* The leaf node, ctree<data_t, metadata_t>.  A call returns the node      *)
(* after the call and the call's return value.                             *)
(***************************************************************************)

\* std::find_if over m_data with e.data == value.data: the offset of the
\* first equal element, Len(v) (end()) when there is none.
RECURSIVE find_if(_, _, _)
find_if(v, value, i) ==
    IF i >= Len(v) THEN Len(v)
    ELSE IF v[i + 1].data = value THEN i
    ELSE find_if(v, value, i + 1)

\* A faulty merge of metadata: assignment in place of +=.
merge_metadata_assign(v, i, value) ==
    [v EXCEPT ![i + 1].metadata = value.metadata]

\* m_data[i].metadata += value.metadata
\* A faulty merge of the metadata: every entry of the leaf takes it.
merge_metadata_everywhere(v, i, value) ==
    [j \in 1..Len(v) |-> [v[j] EXCEPT !.metadata = @ + value.metadata]]

\* A faulty merge of the metadata: one occurrence is counted, whatever the
\* metadata of the value counts.
merge_metadata_one(v, i, value) ==
    [v EXCEPT ![i + 1].metadata = @ + 1]

merge_metadata(v, i, value) ==
    [v EXCEPT ![i + 1].metadata = @ + value.metadata]

\* add<unique>(value) on a leaf whose data_t is LessthanComparable.
leaf_add_ordered(node, value, unique) ==
    LET r == search_element(node.m_data, value.data)
        i == r[1]
        exists == r[2]
    IN  IF ~unique THEN
            [node |-> [m_data |-> InsertAt(node.m_data, i, value)], ret |-> TRUE]
        ELSE IF exists THEN
            [node |-> [m_data |-> IF mergeable
                                  THEN merge_metadata(node.m_data, i, value)
                                  ELSE node.m_data],
             ret |-> FALSE]
        ELSE [node |-> [m_data |-> InsertAt(node.m_data, i, value)], ret |-> TRUE]

\* A faulty add: the element goes to the front of the leaf.
leaf_add_equality_front(node, value, unique) ==
    [node |-> [m_data |-> <<value>> \o node.m_data], ret |-> TRUE]

\* A faulty add: an element found is taken out and stored anew at the back.
leaf_add_equality_to_back(node, value, unique) ==
    LET i == find_if(node.m_data, value.data, 0) IN
    IF ~unique \/ i = Len(node.m_data) THEN
        [node |-> [m_data |-> Append(node.m_data, value)], ret |-> TRUE]
    ELSE [node |-> [m_data |-> Append(SubSeq(node.m_data, 1, i)
                                      \o SubSeq(node.m_data, i + 2, Len(node.m_data)),
                                      merge_metadata(node.m_data, i, value)[i + 1])],
          ret |-> FALSE]

\* add<unique>(value) on a leaf whose data_t is only EqualityComparable.
leaf_add_equality(node, value, unique) ==
    LET i == find_if(node.m_data, value.data, 0) IN
    IF ~unique THEN [node |-> [m_data |-> Append(node.m_data, value)], ret |-> TRUE]
    ELSE IF i = Len(node.m_data) THEN
        [node |-> [m_data |-> Append(node.m_data, value)], ret |-> TRUE]
    ELSE [node |-> [m_data |-> IF mergeable
                               THEN merge_metadata(node.m_data, i, value)
                               ELSE node.m_data],
          ret |-> FALSE]

\* A faulty add: it stores the element whether or not the leaf holds it.
leaf_add_store(node, value, unique) ==
    [node |-> [m_data |-> Append(node.m_data, value)], ret |-> TRUE]

leaf_add(node, value, unique) ==
    IF ordered THEN leaf_add_ordered(node, value, unique)
    ELSE leaf_add_equality(node, value, unique)

\* add_empty<unique>(value) on a leaf.
leaf_add_empty(node, value) ==
    [node |-> [m_data |-> Append(node.m_data, value)], ret |-> TRUE]

\* merge<unique>(t) on a leaf: add every element of t, from offset i on;
\* acc is added_elems.
RECURSIVE leaf_merge_loop(_, _, _, _, _)
leaf_merge_loop(node, t, unique, i, acc) ==
    IF i >= Len(t.m_data) THEN [node |-> node, ret |-> acc]
    ELSE LET r == leaf_add(node, t.m_data[i + 1], unique)
         IN  leaf_merge_loop(r.node, t, unique, i + 1, acc + b2n(r.ret))

\* A faulty merge of a leaf: it returns the number of the elements of t.
leaf_merge_all(node, t, unique) ==
    [node |-> leaf_merge_loop(node, t, unique, 0, 0).node, ret |-> Len(t.m_data)]

leaf_merge(node, t, unique) == leaf_merge_loop(node, t, unique, 0, 0)

(***************************************************************************)
(* The internal node, ctree<data_t, metadata_t, key_t, keys_t...>.         *)
(* ks is the sequence of the keys h, ks... still to be consumed; the       *)
(* template with no key left is the leaf.                                  *)
(***************************************************************************)
RECURSIVE add_empty(_, _, _)
RECURSIVE add(_, _, _, _)
RECURSIVE merge(_, _, _)
RECURSIVE merge_loop(_, _, _, _)

size(node) == IF IsLeaf(node) THEN Len(node.m_data) ELSE node.m_size

\* num_keys() of a leaf is its number of elements, of an internal node its
\* number of children.
num_keys(node) == IF IsLeaf(node) THEN Len(node.m_data) ELSE Len(node.m_children)

\* A faulty add to an empty node: the new element is not counted in m_size.
add_empty_uncounted(node, value, ks) ==
    IF ks = <<>> THEN leaf_add_empty(node, value)
    ELSE
        LET children == Append(node.m_children,
                               [first |-> Head(ks), second |-> EmptyNode(Len(ks) - 1)])
            r == add_empty(children[1].second, value, Tail(ks))
        IN  [node |-> [m_children |-> [children EXCEPT ![1].second = r.node],
                       m_size |-> node.m_size],
             ret |-> r.ret]

add_empty(node, value, ks) ==
    IF ks = <<>> THEN leaf_add_empty(node, value)
    ELSE
        LET children == Append(node.m_children,
                               [first |-> Head(ks), second |-> EmptyNode(Len(ks) - 1)])
            r == add_empty(children[1].second, value, Tail(ks))
        IN  [node |-> [m_children |-> [children EXCEPT ![1].second = r.node],
                       m_size |-> node.m_size + 1],
             ret |-> r.ret]

add(node, value, ks, unique) ==
    IF ks = <<>> THEN leaf_add(node, value, unique)
    ELSE
        LET s == search_pair(node.m_children, Head(ks))
            i == s[1]
            exists == s[2]
        IN  IF ~exists THEN
                LET children == InsertAt(node.m_children, i,
                                         [first |-> Head(ks),
                                          second |-> EmptyNode(Len(ks) - 1)])
                    r == add_empty(children[i + 1].second, value, Tail(ks))
                IN  [node |-> [m_children |-> [children EXCEPT ![i + 1].second = r.node],
                               m_size |-> node.m_size + 1],
                     ret |-> r.ret]
            ELSE
                LET r == add(node.m_children[i + 1].second, value, Tail(ks), unique)
                IN  [node |-> [m_children |->
                                   [node.m_children EXCEPT ![i + 1].second = r.node],
                               m_size |-> node.m_size + b2n(r.ret)],
                     ret |-> r.ret]

\* A faulty adoption of a subtree: it counts as one element.
merge_insert_one(node, i, k, c) ==
    [m_children |-> InsertAt(node.m_children, i, [first |-> k, second |-> c]),
     m_size |-> node.m_size + 1]

\* A faulty merge of a new key: the subtree is moved in at the front.
merge_insert_front(node, i, k, c) ==
    [m_children |-> InsertAt(node.m_children, 0, [first |-> k, second |-> c]),
     m_size |-> node.m_size + size(c)]

\* merge, for a key that the node does not have: the subtree c is moved
\* in at offset i, with all its elements.
merge_insert(node, i, k, c) ==
    [m_children |-> InsertAt(node.m_children, i, [first |-> k, second |-> c]),
     m_size |-> node.m_size + size(c)]

\* A faulty loop of merge: a child under a key that the node has is left out.
merge_loop_new_keys(node, t, unique, n) ==
    IF n >= Len(t.m_children) THEN node
    ELSE
        LET k == t.m_children[n + 1].first
            c == t.m_children[n + 1].second
            s == search_pair(node.m_children, k)
        IN  IF ~s[2] THEN merge_loop(merge_insert(node, s[1], k, c), t, unique, n + 1)
            ELSE merge_loop(node, t, unique, n + 1)

\* The loop of merge over t.m_children, from offset n on.
merge_loop(node, t, unique, n) ==
    IF n >= Len(t.m_children) THEN node
    ELSE
        LET k == t.m_children[n + 1].first
            c == t.m_children[n + 1].second
            s == search_pair(node.m_children, k)
            i == s[1]
            exists == s[2]
        IN  IF ~exists THEN
                merge_loop(merge_insert(node, i, k, c), t, unique, n + 1)
            ELSE
                LET r == merge(node.m_children[i + 1].second, c, unique)
                IN  merge_loop([m_children |->
                                    [node.m_children EXCEPT ![i + 1].second = r.node],
                                m_size |-> node.m_size + r.ret],
                               t, unique, n + 1)

merge(node, t, unique) ==
    IF IsLeaf(node) THEN leaf_merge(node, t, unique)
    ELSE
        LET old_size == node.m_size
            res == merge_loop(node, t, unique, 0)
        IN  [node |-> res, ret |-> res.m_size - old_size]

(***************************************************************************)
(* Iterators.  An iterator object is one record per level of the tree,     *)
(* lv[1] for the root and lv[Len(lv)] for the leaves; lv[l + 1] is the     *)
(* m_subtree_iterator of lv[l].  m_tree, a pointer to a node, is the       *)
(* sequence of child offsets leading from the root to that node; m_it, a   *)
(* container iterator, is an offset into the node's container.  tree_set   *)
(* and it_set tell whether m_tree and m_it (with the range iterator's      *)
(* indices) have been assigned since the object was constructed.           *)
(***************************************************************************)
RECURSIVE NodeAt(_, _)
NodeAt(T, path) ==
    IF path = <<>> THEN T
    ELSE NodeAt(T.m_children[Head(path) + 1].second, Tail(path))

\* The container m_tree->begin() .. m_tree->end() of level l.
container(T, lv, l) ==
    LET node == NodeAt(T, lv[l].m_tree)
    IN  IF IsLeaf(node) THEN node.m_data ELSE node.m_children

tree_size(T, lv, l) == size(NodeAt(T, lv[l].m_tree))
tree_num_keys(T, lv, l) == num_keys(NodeAt(T, lv[l].m_tree))
tree_end(T, lv, l) == Len(container(T, lv, l))

set_pointer(lv, l, path) == [lv EXCEPT ![l].m_tree = path, ![l].tree_set = TRUE]

\* &m_it->second of level l.
child_pointer(lv, l) == Append(lv[l].m_tree, lv[l].m_it)

set_it(lv, l, i) == [lv EXCEPT ![l].m_it = i, ![l].it_set = TRUE]

(***************************************************************************)
(* iterator.hpp: the unfiltered iterator.                                  *)
(***************************************************************************)
RECURSIVE it_to_begin(_, _, _)
RECURSIVE it_to_end(_, _, _)
RECURSIVE it_inc(_, _, _)
RECURSIVE it_dec(_, _, _)
RECURSIVE it_begin(_, _, _)
RECURSIVE it_past_begin(_, _, _)
RECURSIVE it_end(_, _, _)

it_shallow_past_begin(lv, l) == lv[l].m_past_begin
it_shallow_begin(T, lv, l) == ~it_shallow_past_begin(lv, l) /\ lv[l].m_it = 0
\* A faulty shallow_end(): the last child counts as the end.
it_shallow_end_early(T, lv, l) == lv[l].m_it + 1 >= tree_end(T, lv, l)

it_shallow_end(T, lv, l) == lv[l].m_it = tree_end(T, lv, l)

it_to_begin(T, lv, l) ==
    IF tree_size(T, lv, l) = 0 THEN
        set_it([lv EXCEPT ![l].m_past_begin = TRUE], l, tree_end(T, lv, l))
    ELSE
        LET lv1 == set_it([lv EXCEPT ![l].m_past_begin = FALSE], l, 0)
        IN  IF l = Len(lv) THEN lv1
            ELSE it_to_begin(T, set_pointer(lv1, l + 1, child_pointer(lv1, l)), l + 1)

\* A faulty to_end(): it places the iterator as to_begin() does.
it_to_end_first(T, lv, l) == it_to_begin(T, lv, l)

it_to_end(T, lv, l) ==
    IF tree_size(T, lv, l) = 0 THEN
        set_it([lv EXCEPT ![l].m_past_begin = TRUE], l, tree_end(T, lv, l))
    ELSE
        LET lv1 == set_it([lv EXCEPT ![l].m_past_begin = FALSE], l,
                          tree_end(T, lv, l) - 1)
        IN  IF l = Len(lv) THEN lv1
            ELSE it_to_end(T, set_pointer(lv1, l + 1, child_pointer(lv1, l)), l + 1)

it_begin(T, lv, l) ==
    IF l = Len(lv) THEN ~lv[l].m_past_begin /\ lv[l].m_it = 0
    ELSE IF tree_size(T, lv, l) = 0 THEN TRUE
    ELSE it_shallow_begin(T, lv, l) /\ it_begin(T, lv, l + 1)

it_past_begin(T, lv, l) ==
    IF l = Len(lv) THEN lv[l].m_past_begin
    ELSE IF tree_size(T, lv, l) = 0 THEN TRUE
    ELSE it_shallow_past_begin(lv, l) /\ it_past_begin(T, lv, l + 1)

it_end(T, lv, l) ==
    IF l = Len(lv) THEN lv[l].m_it = tree_end(T, lv, l)
    ELSE IF tree_size(T, lv, l) = 0 THEN TRUE
    ELSE it_shallow_end(T, lv, l) /\ it_end(T, lv, l + 1)

\* A faulty operator++ of the leaf level: it moves the cursor and leaves
\* m_past_begin as it is.
it_leaf_inc_keep(lv, l) == [lv EXCEPT ![l].m_it = @ + 1]

\* operator++ of the leaf level.
it_leaf_inc(lv, l) ==
    IF lv[l].m_past_begin THEN [lv EXCEPT ![l].m_past_begin = FALSE]
    ELSE [lv EXCEPT ![l].m_it = @ + 1]

\* A faulty operator-- of the leaf level: it never sets m_past_begin.
it_leaf_dec_always(T, lv, l) == [lv EXCEPT ![l].m_it = @ - 1]

\* operator-- of the leaf level.
it_leaf_dec(T, lv, l) ==
    IF it_begin(T, lv, l) THEN [lv EXCEPT ![l].m_past_begin = TRUE]
    ELSE [lv EXCEPT ![l].m_it = @ - 1]

it_inc(T, lv, l) ==
    IF l = Len(lv) THEN it_leaf_inc(lv, l)
    ELSE
        Bind(it_inc(T, [lv EXCEPT ![l].m_past_begin = FALSE], l + 1), LAMBDA lv1 :
            IF it_end(T, lv1, l + 1) THEN
                LET lv2 == [lv1 EXCEPT ![l].m_it = @ + 1]
                IN  IF ~it_shallow_end(T, lv2, l) THEN
                        it_to_begin(T, set_pointer(lv2, l + 1, child_pointer(lv2, l)),
                                    l + 1)
                    ELSE lv2
            ELSE lv1)

\* operator-- after --m_subtree_iterator: when the iterator below is past
\* its beginning, move to the last element of the previous subtree.
it_dec_move(T, lv, l) ==
    IF it_past_begin(T, lv, l + 1) THEN
        IF it_shallow_begin(T, lv, l) THEN [lv EXCEPT ![l].m_past_begin = TRUE]
        ELSE
            LET lv3 == [lv EXCEPT ![l].m_it = @ - 1]
            IN  it_to_end(T, set_pointer(lv3, l + 1, child_pointer(lv3, l)), l + 1)
    ELSE lv

\* A faulty end of operator--: the iterator below is placed anew, at the
\* beginning of the subtree moved back to.
it_dec_from_end_reset(T, lv, l) ==
    IF it_shallow_end(T, lv, l) THEN
        LET lv3 == [lv EXCEPT ![l].m_it = @ - 1]
        IN  it_to_begin(T, set_pointer(lv3, l + 1, child_pointer(lv3, l)), l + 1)
    ELSE lv

\* The end of operator--: an iterator at the end moves back.
it_dec_from_end(T, lv, l) ==
    IF it_shallow_end(T, lv, l) THEN [lv EXCEPT ![l].m_it = @ - 1] ELSE lv

it_dec(T, lv, l) ==
    IF l = Len(lv) THEN it_leaf_dec(T, lv, l)
    ELSE Bind(it_dec(T, lv, l + 1), LAMBDA lv1 :
              Bind(it_dec_move(T, lv1, l), LAMBDA lv2 : it_dec_from_end(T, lv2, l)))

\* operator*: the element the leaf level's m_it refers to, as the leaf it
\* lies in and its offset there.
it_deref(lv) == [leaf |-> lv[Len(lv)].m_tree, off |-> lv[Len(lv)].m_it]

\* A default-constructed level: nothing assigned but m_past_begin = false.
FreshLevel == [m_tree |-> <<>>, tree_set |-> FALSE, m_it |-> 0, it_set |-> FALSE,
               m_past_begin |-> FALSE]

\* get_iterator(): a default-constructed iterator with set_pointer(this).
get_iterator(d) == set_pointer([l \in 1..(d + 1) |-> FreshLevel], 1, <<>>)
get_iterator_begin(T, d) == it_to_begin(T, get_iterator(d), 1)
get_iterator_end(T, d) == it_to_end(T, get_iterator(d), 1)

(***************************************************************************)
(* range_iterator.hpp: the range iterator.  F[l] is the set of the keys    *)
(* that m_func of level l accepts.  m_it_idx, m_begin_idx and m_end_idx    *)
(* are size_t and only ever compared for equality, so that an integer      *)
(* below 0 stands for the value the unsigned arithmetic wraps to.  An      *)
(* operation that returns a value returns [ok, lv] or [c, lv].  moves of    *)
(* level 1 is not a member of the class: it counts the ++m_it and --m_it   *)
(* that a call executes, at all levels.                                    *)
(***************************************************************************)
RECURSIVE rit_to_begin(_, _, _, _)
RECURSIVE rit_to_end(_, _, _, _)
RECURSIVE rit_inc(_, _, _, _)
RECURSIVE rit_dec(_, _, _, _)
RECURSIVE rit_count(_, _, _, _)
RECURSIVE rit_count_loop(_, _, _, _, _)
RECURSIVE rit_begin(_, _, _)
RECURSIVE rit_past_begin(_, _, _)
RECURSIVE rit_end(_, _, _)
RECURSIVE rit_next(_, _, _, _)
RECURSIVE rit_previous(_, _, _, _)
RECURSIVE rit_skip_forward(_, _, _, _)
RECURSIVE rit_skip_backward(_, _, _, _)
RECURSIVE rit_dec_skip(_, _, _, _)

\* ++m_it; ++m_it_idx;  and  --m_it; --m_it_idx;
rit_step(lv, l) ==
    [lv EXCEPT ![l].m_it = @ + 1, ![l].m_it_idx = @ + 1, ![1].moves = @ + 1]
rit_step_back(lv, l) ==
    [lv EXCEPT ![l].m_it = @ - 1, ![l].m_it_idx = @ - 1, ![1].moves = @ + 1]

\* A faulty test of the key: every key is accepted.
rit_func_any(T, F, lv, l) == TRUE

\* m_func(m_it->first)
rit_func(T, F, lv, l) == container(T, lv, l)[lv[l].m_it + 1].first \in F[l]

rit_shallow_past_begin(lv, l) == ~lv[l].tree_set \/ lv[l].m_past_begin
rit_shallow_begin(T, lv, l) ==
    /\ ~rit_shallow_past_begin(lv, l)
    /\ (lv[l].m_it = 0 \/ lv[l].m_it_idx = lv[l].m_begin_idx)
\* A faulty shallow_end(): only the end of the container counts.
rit_shallow_end_of_tree(T, lv, l) == lv[l].m_it = tree_end(T, lv, l)

rit_shallow_end(T, lv, l) ==
    lv[l].m_it_idx = lv[l].m_end_idx \/ lv[l].m_it = tree_end(T, lv, l)

rit_begin(T, lv, l) ==
    IF l = Len(lv) THEN lv[l].tree_set /\ ~lv[l].m_past_begin /\ lv[l].m_it = 0
    ELSE IF ~lv[l].tree_set \/ tree_num_keys(T, lv, l) = 0 THEN FALSE
    ELSE rit_shallow_begin(T, lv, l) /\ rit_begin(T, lv, l + 1)

rit_past_begin(T, lv, l) ==
    IF l = Len(lv) THEN ~lv[l].tree_set \/ lv[l].m_past_begin
    ELSE IF ~lv[l].tree_set \/ tree_num_keys(T, lv, l) = 0 THEN TRUE
    ELSE rit_shallow_past_begin(lv, l) /\ rit_past_begin(T, lv, l + 1)

rit_end(T, lv, l) ==
    IF l = Len(lv) THEN ~lv[l].tree_set \/ lv[l].m_it = tree_end(T, lv, l)
    ELSE IF ~lv[l].tree_set \/ tree_num_keys(T, lv, l) = 0 THEN TRUE
    ELSE rit_shallow_end(T, lv, l) /\ rit_end(T, lv, l + 1)

\* The inner loop of next(): skip the keys that m_func rejects.
rit_skip_forward(T, F, lv, l) ==
    IF ~rit_shallow_end(T, lv, l) /\ ~rit_func(T, F, lv, l)
    THEN rit_skip_forward(T, F, rit_step(lv, l), l)
    ELSE lv

rit_next(T, F, lv, l) ==
    Bind(rit_skip_forward(T, F, lv, l), LAMBDA lv1 :
        IF rit_shallow_end(T, lv1, l) THEN [ok |-> FALSE, lv |-> lv1]
        ELSE
            Bind(rit_to_begin(T, F, set_pointer(lv1, l + 1, child_pointer(lv1, l)), l + 1),
                 LAMBDA r : IF r.ok THEN [ok |-> TRUE, lv |-> r.lv]
                            ELSE rit_next(T, F, rit_step(r.lv, l), l)))

rit_simple_move_back(T, lv, l) ==
    IF rit_shallow_begin(T, lv, l) THEN [lv EXCEPT ![l].m_past_begin = TRUE]
    ELSE rit_step_back(lv, l)

\* The inner loop of previous(): move back over the keys that m_func rejects.
rit_skip_backward(T, F, lv, l) ==
    IF ~rit_shallow_past_begin(lv, l) /\ ~rit_func(T, F, lv, l)
    THEN rit_skip_backward(T, F, rit_simple_move_back(T, lv, l), l)
    ELSE lv

rit_previous(T, F, lv, l) ==
    Bind(rit_skip_backward(T, F, lv, l), LAMBDA lv1 :
        IF rit_shallow_past_begin(lv1, l) THEN [ok |-> FALSE, lv |-> lv1]
        ELSE
            Bind(rit_to_end(T, F, set_pointer(lv1, l + 1, child_pointer(lv1, l)), l + 1),
                 LAMBDA r : IF r.ok THEN [ok |-> TRUE, lv |-> r.lv]
                            ELSE rit_previous(T, F, rit_simple_move_back(T, r.lv, l), l)))

\* A faulty reset: m_past_begin is left as it is.
rit_nothing_found_unflagged(lv, l, n) ==
    [lv EXCEPT ![l].m_it = 0, ![l].m_it_idx = n, ![l].m_begin_idx = n,
               ![l].m_end_idx = n]

\* initialize_limits_begin() and initialize_limits_end() when no key leads
\* to an element; n is m_tree->num_keys().
rit_nothing_found(lv, l, n) ==
    [lv EXCEPT ![l].m_it = 0, ![l].m_it_idx = n, ![l].m_begin_idx = n,
               ![l].m_end_idx = n, ![l].m_past_begin = TRUE]

rit_initialize_limits_begin(T, F, lv, l) ==
    LET n == tree_num_keys(T, lv, l)
        lv1 == [lv EXCEPT ![l].m_past_begin = FALSE, ![l].m_begin_idx = 0,
                          ![l].m_it = tree_end(T, lv, l) - 1, ![l].m_it_idx = n - 1,
                          ![l].m_end_idx = n, ![l].it_set = TRUE]
    IN  Bind(rit_previous(T, F, lv1, l), LAMBDA found_last :
        IF ~found_last.ok THEN
            [ok |-> FALSE, lv |-> rit_nothing_found(found_last.lv, l, n)]
        ELSE
            Bind(rit_next(T, F, [found_last.lv EXCEPT
                            ![l].m_end_idx = found_last.lv[l].m_it_idx + 1,
                            ![l].m_it = 0, ![l].m_it_idx = 0], l), LAMBDA found_first :
                 [ok |-> TRUE,
                 lv |-> [found_first.lv EXCEPT
                             ![l].m_begin_idx = found_first.lv[l].m_it_idx]]))

\* A faulty initialize_limits_end(): the right limit is not captured.
rit_initialize_limits_end_whole(T, F, lv, l) ==
    LET n == tree_num_keys(T, lv, l)
        lv1 == [lv EXCEPT ![l].m_begin_idx = 0, ![l].m_it = 0, ![l].m_it_idx = 0,
                          ![l].m_end_idx = n, ![l].m_past_begin = FALSE,
                          ![l].it_set = TRUE]
    IN  Bind(rit_next(T, F, lv1, l), LAMBDA found_first :
        IF ~found_first.ok THEN
            [ok |-> FALSE, lv |-> rit_nothing_found(found_first.lv, l, n)]
        ELSE
            Bind(rit_previous(T, F, [found_first.lv EXCEPT
                            ![l].m_begin_idx = found_first.lv[l].m_it_idx,
                            ![l].m_it = tree_end(T, lv, l) - 1, ![l].m_it_idx = n - 1], l),
                 LAMBDA found_last : [ok |-> TRUE, lv |-> found_last.lv]))

rit_initialize_limits_end(T, F, lv, l) ==
    LET n == tree_num_keys(T, lv, l)
        lv1 == [lv EXCEPT ![l].m_begin_idx = 0, ![l].m_it = 0, ![l].m_it_idx = 0,
                          ![l].m_end_idx = n, ![l].m_past_begin = FALSE,
                          ![l].it_set = TRUE]
    IN  Bind(rit_next(T, F, lv1, l), LAMBDA found_first :
        IF ~found_first.ok THEN
            [ok |-> FALSE, lv |-> rit_nothing_found(found_first.lv, l, n)]
        ELSE
            Bind(rit_previous(T, F, [found_first.lv EXCEPT
                            ![l].m_begin_idx = found_first.lv[l].m_it_idx,
                            ![l].m_it = tree_end(T, lv, l) - 1, ![l].m_it_idx = n - 1], l),
                 LAMBDA found_last :
                 [ok |-> TRUE,
                 lv |-> [found_last.lv EXCEPT
                             ![l].m_end_idx = found_last.lv[l].m_it_idx + 1]]))

\* to_begin() and to_end() on a node with num_keys() == 0.
rit_to_empty(T, lv, l) ==
    IF l = Len(lv) THEN
        set_it([lv EXCEPT ![l].m_past_begin = TRUE], l, tree_end(T, lv, l))
    ELSE
        [lv EXCEPT ![l].m_past_begin = TRUE, ![l].m_it = tree_end(T, lv, l),
                   ![l].m_begin_idx = 1, ![l].m_it_idx = 1, ![l].m_end_idx = 1,
                   ![l].it_set = TRUE]

\* A faulty to_begin: it places the iterator on the last element.
rit_to_begin_last(T, F, lv, l) == rit_to_end(T, F, lv, l)

rit_to_begin(T, F, lv, l) ==
    IF tree_num_keys(T, lv, l) = 0 THEN [ok |-> FALSE, lv |-> rit_to_empty(T, lv, l)]
    ELSE IF l = Len(lv) THEN
        [ok |-> TRUE, lv |-> set_it([lv EXCEPT ![l].m_past_begin = FALSE], l, 0)]
    ELSE rit_initialize_limits_begin(T, F, lv, l)

\* A faulty to_end(): it places the iterator as to_begin() does.
rit_to_end_first(T, F, lv, l) == rit_to_begin(T, F, lv, l)

rit_to_end(T, F, lv, l) ==
    IF tree_num_keys(T, lv, l) = 0 THEN [ok |-> FALSE, lv |-> rit_to_empty(T, lv, l)]
    ELSE IF l = Len(lv) THEN
        [ok |-> TRUE,
         lv |-> set_it([lv EXCEPT ![l].m_past_begin = FALSE], l, tree_end(T, lv, l) - 1)]
    ELSE rit_initialize_limits_end(T, F, lv, l)

\* A faulty operator++ of the leaf level: it moves on from past-begin.
rit_leaf_inc_moves(lv, l) ==
    [lv EXCEPT ![l].m_past_begin = FALSE, ![l].m_it = @ + 1, ![1].moves = @ + 1]

\* operator++ of the leaf level.
rit_leaf_inc(lv, l) ==
    IF lv[l].m_past_begin THEN [lv EXCEPT ![l].m_past_begin = FALSE]
    ELSE [lv EXCEPT ![l].m_it = @ + 1, ![1].moves = @ + 1]

\* operator-- of the leaf level.
rit_leaf_dec(T, lv, l) ==
    IF rit_begin(T, lv, l) THEN [lv EXCEPT ![l].m_past_begin = TRUE]
    ELSE [lv EXCEPT ![l].m_it = @ - 1, ![1].moves = @ + 1]

rit_inc(T, F, lv, l) ==
    IF l = Len(lv) THEN rit_leaf_inc(lv, l)
    ELSE
        Bind(rit_inc(T, F, [lv EXCEPT ![l].m_past_begin = FALSE], l + 1), LAMBDA lv1 :
            IF rit_end(T, lv1, l + 1) THEN
                LET lv2 == rit_step(lv1, l)
                IN  IF ~rit_shallow_end(T, lv2, l) THEN rit_next(T, F, lv2, l).lv
                    ELSE lv2
            ELSE lv1)

\* The loop that ends operator--: back over the keys that m_func rejects,
\* down to m_tree->begin() at most.
rit_dec_skip(T, F, lv, l) ==
    IF ~rit_func(T, F, lv, l) /\ lv[l].m_it # 0
    THEN rit_dec_skip(T, F, rit_step_back(lv, l), l)
    ELSE lv

\* operator-- after --m_subtree_iterator: when the iterator below is past
\* its beginning, move to the previous non-empty subtree.
rit_dec_move(T, F, lv, l) ==
    IF rit_past_begin(T, lv, l + 1) THEN
        IF rit_shallow_begin(T, lv, l) THEN [lv EXCEPT ![l].m_past_begin = TRUE]
        ELSE rit_previous(T, F, rit_step_back(lv, l), l).lv
    ELSE lv

\* The end of operator--: an iterator at the end moves back.
rit_dec_from_end(T, F, lv, l) ==
    IF rit_shallow_end(T, lv, l) THEN rit_dec_skip(T, F, rit_step_back(lv, l), l)
    ELSE lv

rit_dec(T, F, lv, l) ==
    IF l = Len(lv) THEN rit_leaf_dec(T, lv, l)
    ELSE Bind(rit_dec(T, F, lv, l + 1), LAMBDA lv1 :
              Bind(rit_dec_move(T, F, lv1, l), LAMBDA lv2 :
                   rit_dec_from_end(T, F, lv2, l)))

\* The outer loop of count(); c is the count so far.
rit_count_loop(T, F, lv, l, c) ==
    IF rit_shallow_end(T, lv, l) THEN [c |-> c, lv |-> lv]
    ELSE
        Bind(rit_skip_forward(T, F, lv, l), LAMBDA lv1 :
            IF ~rit_shallow_end(T, lv1, l) THEN
                Bind(rit_count(T, F, set_pointer(lv1, l + 1, child_pointer(lv1, l)),
                               l + 1),
                     LAMBDA r : rit_count_loop(T, F, rit_step(r.lv, l), l, c + r.c))
            ELSE rit_count_loop(T, F, lv1, l, c))

\* A faulty count() of the leaf level: a leaf counts as one element.
rit_leaf_count_one(T, lv, l) == 1

\* count() of the leaf level.
rit_leaf_count(T, lv, l) == tree_size(T, lv, l)

rit_count_from_here(T, F, lv, l) ==
    IF l = Len(lv) THEN [c |-> rit_leaf_count(T, lv, l), lv |-> lv]
    ELSE rit_count_loop(T, F, lv, l, 0)

rit_count_from_begin(T, F, lv, l) ==
    IF l = Len(lv) THEN [c |-> rit_leaf_count(T, lv, l), lv |-> lv]
    ELSE rit_count_loop(T, F,
                        [rit_to_begin(T, F, lv, l).lv EXCEPT
                             ![l].m_it = 0, ![l].m_it_idx = 0, ![l].m_begin_idx = 0,
                             ![l].m_end_idx = tree_num_keys(T, lv, l),
                             ![l].it_set = TRUE],
                        l, 0)

\* A faulty count(): the count is returned and the cursors are put back.
rit_count_in_place(T, F, lv, l) ==
    IF l = Len(lv) THEN [c |-> rit_leaf_count(T, lv, l), lv |-> lv]
    ELSE [c |-> rit_count_loop(T, F,
                               [lv EXCEPT ![l].m_it = 0, ![l].m_it_idx = 0,
                                          ![l].m_begin_idx = 0,
                                          ![l].m_end_idx = tree_num_keys(T, lv, l),
                                          ![l].it_set = TRUE],
                               l, 0).c,
          lv |-> lv]

rit_count(T, F, lv, l) ==
    IF l = Len(lv) THEN [c |-> rit_leaf_count(T, lv, l), lv |-> lv]
    ELSE rit_count_loop(T, F,
                        [lv EXCEPT ![l].m_it = 0, ![l].m_it_idx = 0, ![l].m_begin_idx = 0,
                                   ![l].m_end_idx = tree_num_keys(T, lv, l),
                                   ![l].it_set = TRUE],
                        l, 0)

rit_deref(lv) == [leaf |-> lv[Len(lv)].m_tree, off |-> lv[Len(lv)].m_it]

\* A default-constructed level: m_tree = nullptr, m_past_begin = false, and
\* nothing assigned to m_it and to the three indices.
FreshRangeLevel == [m_tree |-> <<>>, tree_set |-> FALSE, m_it |-> 0, it_set |-> FALSE,
                    m_past_begin |-> FALSE, m_it_idx |-> 0, m_begin_idx |-> 0,
                    m_end_idx |-> 0, moves |-> 0]

\* The count of the moves starts anew with every call of a client.
Unmoved(lv) == [lv EXCEPT ![1].moves = 0]

\* get_range_iterator(fs...): set_functions(fs...) and set_pointer(this).
get_range_iterator(d) == set_pointer([l \in 1..(d + 1) |-> FreshRangeLevel], 1, <<>>)
get_range_iterator_begin(T, F, d) ==
    Unmoved(rit_to_begin(T, F, get_range_iterator(d), 1).lv)
get_range_iterator_end(T, F, d) ==
    Unmoved(rit_to_end(T, F, get_range_iterator(d), 1).lv)

(***************************************************************************)
(* The calls a client makes on the trees.                                  *)
(***************************************************************************)
NoCall == [op |-> "none"]
NoIter == [kind |-> "none"]

Init ==
    /\ depth \in Depths
    /\ ordered \in BOOLEAN
    /\ mergeable \in BOOLEAN
    /\ kd = EmptyNode(depth)
    /\ other = EmptyNode(depth)
    /\ hist = [calls |-> 0, trues |-> 0, modes |-> {}, others |-> 0, merged |-> FALSE,
               paths |-> <<>>]
    /\ last = NoCall
    /\ iter = NoIter

\* kd.add<unique>({v, 1}, ks...)
Add ==
    /\ hist.calls + hist.others < MaxAdds
    /\ \E ks \in KeyPaths(depth), v \in Vals, unique \in BOOLEAN :
         LET value == [data |-> v, metadata |-> 1]
             r == add(kd, value, ks, unique)
         IN  /\ kd' = r.node
             /\ hist' = [hist EXCEPT !.calls = @ + 1,
                                     !.trues = IF r.ret THEN @ + 1 ELSE @,
                                     !.modes = @ \cup {unique}]
             /\ last' = [op |-> "add", value |-> value, ks |-> ks, unique |-> unique,
                         ret |-> r.ret, pre |-> kd]
    /\ iter' = NoIter
    /\ UNCHANGED <<depth, ordered, mergeable, other>>

\* other.add<unique>({v, 1}, ks...)
AddOther ==
    /\ hist.calls + hist.others < MaxAdds
    /\ ~hist.merged
    /\ \E ks \in KeyPaths(depth), v \in Vals, unique \in BOOLEAN :
         LET r == add(other, [data |-> v, metadata |-> 1], ks, unique)
         IN  other' = r.node
    /\ hist' = [hist EXCEPT !.others = @ + 1]
    /\ UNCHANGED <<depth, ordered, mergeable, kd, last, iter>>

\* kd.merge<unique>(std::move(other)); the tree moved from is not used
\* again, and the model keeps an empty tree in its place.
Merge ==
    /\ ~hist.merged
    /\ \E unique \in BOOLEAN :
         LET r == merge(kd, other, unique)
         IN  /\ kd' = r.node
             /\ last' = [op |-> "merge", t |-> other, unique |-> unique,
                         ret |-> r.ret, pre |-> kd]
    /\ hist' = [hist EXCEPT !.merged = TRUE]
    /\ other' = EmptyNode(depth)
    /\ iter' = NoIter
    /\ UNCHANGED <<depth, ordered, mergeable>>

Next == Add \/ AddOther \/ Merge

Spec == Init /\ [][Next]_vars

(***************************************************************************)
(* The calls a client makes on an iterator of kd.  Adding to the tree      *)
(* invalidates the iterator.                                               *)
(***************************************************************************)
\* The tuples of predicates a range iterator can be given: one set of
\* accepted keys per key level.
RECURSIVE Functions(_)
Functions(d) ==
    IF d = 0 THEN {<<>>}
    ELSE {<<f>> \o fs : f \in SUBSET Keys, fs \in Functions(d - 1)}

iter_begin(T, it) ==
    IF it.kind = "full" THEN it_begin(T, it.lv, 1) ELSE rit_begin(T, it.lv, 1)
iter_past_begin(T, it) ==
    IF it.kind = "full" THEN it_past_begin(T, it.lv, 1) ELSE rit_past_begin(T, it.lv, 1)
iter_end(T, it) ==
    IF it.kind = "full" THEN it_end(T, it.lv, 1) ELSE rit_end(T, it.lv, 1)
iter_to_begin(T, it) ==
    IF it.kind = "full" THEN [it EXCEPT !.lv = it_to_begin(T, it.lv, 1)]
    ELSE [it EXCEPT !.lv = Unmoved(rit_to_begin(T, it.F, it.lv, 1).lv)]
iter_to_end(T, it) ==
    IF it.kind = "full" THEN [it EXCEPT !.lv = it_to_end(T, it.lv, 1)]
    ELSE [it EXCEPT !.lv = Unmoved(rit_to_end(T, it.F, it.lv, 1).lv)]
iter_inc(T, it) ==
    IF it.kind = "full" THEN [it EXCEPT !.lv = it_inc(T, it.lv, 1)]
    ELSE [it EXCEPT !.lv = Unmoved(rit_inc(T, it.F, it.lv, 1))]
iter_dec(T, it) ==
    IF it.kind = "full" THEN [it EXCEPT !.lv = it_dec(T, it.lv, 1)]
    ELSE [it EXCEPT !.lv = Unmoved(rit_dec(T, it.F, it.lv, 1))]
iter_deref(it) == IF it.kind = "full" THEN it_deref(it.lv) ELSE rit_deref(it.lv)

\* The iterator has been placed by to_begin() or to_end().
Placed(it) == it.kind # "none" /\ it.placed

\* The keys m_it->first on the way from the root of T to the node at path.
RECURSIVE KeysOf(_, _)
KeysOf(T, path) ==
    IF path = <<>> THEN <<>>
    ELSE <<T.m_children[Head(path) + 1].first>>
         \o KeysOf(T.m_children[Head(path) + 1].second, Tail(path))

\* What a client reads through *it: the element at offset off of the leaf
\* under the key path keys.
Entry(T, it) ==
    LET d == iter_deref(it) IN [keys |-> KeysOf(T, d.leaf), off |-> d.off]

\* The client's record of a walk: seen collects what *it gave at every
\* position of a loop  for (it.to_begin(); !it.end(); ++it)  (walk "fwd") or
\*  for (it.to_end(); !it.past_begin(); --it)  (walk "bwd"); a walk that
\* changes direction is "mixed" and keeps no record.
StartWalk(T, it, dir) ==
    [it EXCEPT !.placed = TRUE, !.walk = dir,
               !.seen = IF (dir = "fwd" /\ iter_end(T, it)) \/
                           (dir = "bwd" /\ iter_past_begin(T, it))
                        THEN <<>> ELSE <<Entry(T, it)>>]

ContinueWalk(T, it, dir) ==
    IF it.walk # dir THEN [it EXCEPT !.walk = "mixed", !.seen = <<>>]
    ELSE IF (dir = "fwd" /\ iter_end(T, it)) \/ (dir = "bwd" /\ iter_past_begin(T, it))
    THEN it
    ELSE [it EXCEPT !.seen = Append(@, Entry(T, it))]

\* The client's variable after  auto it = kd.get_iterator();  and after
\*  auto it = kd.get_range_iterator(fs...);  count is <<c>> once it.count()
\* has returned c.
\* operator*: *m_subtree_iterator at every level, *m_it at the leaf.
it_star(T, lv) == container(T, lv, Len(lv))[lv[Len(lv)].m_it + 1]

RECURSIVE it_plus(_, _, _)

\* A faulty operator+: the key of a level goes behind those of its subtree.
it_plus_key_last(T, lv, l) ==
    IF l = Len(lv) THEN <<container(T, lv, l)[lv[l].m_it + 1]>>
    ELSE Append(it_plus(T, lv, l + 1), container(T, lv, l)[lv[l].m_it + 1].first)

\* operator+ of level l: the tuple of the subtree iterator with m_it->first
\* put in behind the element, and the element alone at the leaf.
it_plus(T, lv, l) ==
    IF l = Len(lv) THEN <<container(T, lv, l)[lv[l].m_it + 1]>>
    ELSE Bind(it_plus(T, lv, l + 1), LAMBDA subtree :
              <<subtree[1], container(T, lv, l)[lv[l].m_it + 1].first>> \o Tail(subtree))

iter_star(T, it) == it_star(T, it.lv)
iter_plus(T, it) == it_plus(T, it.lv, 1)

\* The tuples +it that a client reads in a loop from to_begin() to end().
RECURSIVE PlusWalk(_, _, _)
PlusWalk(T, it, n) ==
    IF n = 0 \/ iter_end(T, it) THEN <<>>
    ELSE <<iter_plus(T, it)>> \o PlusWalk(T, iter_inc(T, it), n - 1)

NewIterator(d) ==
    [kind |-> "full", F |-> <<>>, lv |-> get_iterator(d),
     placed |-> FALSE, walk |-> "none", seen |-> <<>>, count |-> <<>>]
NewRangeIterator(d, F) ==
    [kind |-> "range", F |-> F, lv |-> get_range_iterator(d),
     placed |-> FALSE, walk |-> "none", seen |-> <<>>, count |-> <<>>]

\* kd.add<unique>({n, 1}, ks...) before any iterator is taken: the n-th
\* call adds the element n, so that the elements of the tree are distinct
\* and every call adds one.
Build ==
    /\ hist.calls < MaxAdds
    /\ iter = NoIter
    /\ \E ks \in KeyPaths(depth), unique \in BOOLEAN :
         /\ kd' = add(kd, [data |-> hist.calls + 1, metadata |-> 1], ks, unique).node
         /\ hist' = [hist EXCEPT !.calls = @ + 1, !.paths = Append(@, ks)]
    /\ UNCHANGED <<depth, ordered, mergeable, other, last, iter>>

\* auto it = kd.get_iterator();
GetIterator ==
    /\ iter = NoIter
    /\ iter' = NewIterator(depth)
    /\ UNCHANGED <<depth, ordered, mergeable, kd, other, hist, last>>

\* auto it = kd.get_range_iterator(fs...);
GetRangeIterator ==
    /\ iter = NoIter
    /\ \E F \in Functions(depth) :
         iter' = NewRangeIterator(depth, F)
    /\ UNCHANGED <<depth, ordered, mergeable, kd, other, hist, last>>

\* it.to_begin();
ToBegin ==
    /\ iter.kind \in {"full", "range"}
    /\ iter' = StartWalk(kd, iter_to_begin(kd, iter), "fwd")
    /\ UNCHANGED <<depth, ordered, mergeable, kd, other, hist, last>>

\* it.to_end();
ToEnd ==
    /\ iter.kind \in {"full", "range"}
    /\ iter' = StartWalk(kd, iter_to_end(kd, iter), "bwd")
    /\ UNCHANGED <<depth, ordered, mergeable, kd, other, hist, last>>

\* ++it; on an iterator that is not at the end.
Inc ==
    /\ Placed(iter)
    /\ ~iter_end(kd, iter)
    /\ iter' = ContinueWalk(kd, iter_inc(kd, iter), "fwd")
    /\ UNCHANGED <<depth, ordered, mergeable, kd, other, hist, last>>

\* --it; on an iterator that is not past the beginning.
Dec ==
    /\ Placed(iter)
    /\ ~iter_past_begin(kd, iter)
    /\ iter' = ContinueWalk(kd, iter_dec(kd, iter), "bwd")
    /\ UNCHANGED <<depth, ordered, mergeable, kd, other, hist, last>>

\* c = it.count(); on a range iterator.  The call moves the cursors, so
\* that the iterator has to be placed again.
Count ==
    /\ iter.kind = "range"
    /\ LET r == rit_count(kd, iter.F, iter.lv, 1)
       IN  iter' = [iter EXCEPT !.lv = Unmoved(r.lv), !.placed = FALSE, !.walk = "none",
                                !.seen = <<>>, !.count = <<r.c>>]
    /\ UNCHANGED <<depth, ordered, mergeable, kd, other, hist, last>>

\* The iterators never read the metadata: the trees they run on are those
\* of a metadata type that is not mergeable.
InitIter == Init /\ ~mergeable

NextIter == Build \/ GetIterator \/ GetRangeIterator \/ ToBegin \/ ToEnd \/ Inc \/ Dec \/ Count

SpecIter == InitIter /\ [][NextIter]_vars

(***************************************************************************)
(* ++ and -- on an empty tree, where the loops of the clients never call   *)
(* them.  Level 1 is the only level with a tree: to_begin() and to_end()   *)
(* return before m_subtree_iterator.set_pointer(), so that at depth 1 and  *)
(* more operator++ and operator-- work on a sub-iterator that was never    *)
(* given a tree.  The unfiltered sub-iterator holds an indeterminate       *)
(* m_tree and m_it; the range sub-iterator holds m_tree = nullptr, an      *)
(* m_it that refers to nothing and indeterminate indices.  A read through  *)
(* an indeterminate pointer, or through a cursor outside its container,   *)
(* ends the program with a fault or yields what lies there: the outcomes   *)
(* are the fault and every way the code goes on from the value read.       *)
(* Cursor arithmetic alone never faults.                                   *)
(***************************************************************************)
\* The program ended by a fault.
Crashed == [kind |-> "crashed", placed |-> FALSE]

\* The cursor of level l is within m_tree->begin() .. m_tree->end().
InContainer(T, lv, l) == lv[l].m_it \in 0..tree_end(T, lv, l)

\* The cursors are not followed further than MaxStray positions away from
\* the containers.
Followed(T, lv) ==
    lv[1].m_it \in (0 - MaxStray)..(tree_end(T, lv, 1) + MaxStray)

\* operator++ of the unfiltered iterator, internal level: m_past_begin =
\* false, ++m_subtree_iterator, and m_subtree_iterator.end() read through
\* the indeterminate m_tree: false leaves the cursor, true moves it, and
\* unless it is then at the end the sub-iterator is pointed at m_it->second
\* and placed, whatever lies there.
it_inc_unset(T, lv) ==
    LET lv0 == [lv EXCEPT ![1].m_past_begin = FALSE]
    IN  {lv0, [lv0 EXCEPT ![1].m_it = @ + 1]}

\* operator-- of the unfiltered iterator, internal level:
\* --m_subtree_iterator, and m_subtree_iterator.past_begin() read from the
\* indeterminate sub-iterator: true moves this level back, and in both
\* cases a cursor at the end moves back.
it_dec_unset(T, lv) ==
    LET moved == IF it_shallow_begin(T, lv, 1)
                 THEN [lv EXCEPT ![1].m_past_begin = TRUE]
                 ELSE [lv EXCEPT ![1].m_it = @ - 1]
    IN  {it_dec_from_end(T, lv, 1), it_dec_from_end(T, moved, 1)}

\* What the loops of next(), previous() and operator-- leave when
\* m_func(m_it->first) is read through a cursor outside the container: the
\* cursor and its index moved on by any number of steps in the direction
\* dir, and for previous() possibly m_past_begin set by simple_move_back().
rit_stray(T, lv, dir) ==
    {[lv EXCEPT ![1].m_it = @ + dir * k, ![1].m_it_idx = @ + dir * k,
                ![1].m_past_begin = b] :
        k \in 0..(2 * MaxStray),
        b \in {lv[1].m_past_begin} \cup (IF dir < 0 THEN {TRUE} ELSE {})}

\* operator++ of the range iterator, internal level, on m_tree with no
\* keys: the sub-iterator's end() is true (its m_tree is nullptr), so the
\* cursor and its index move on; unless shallow_end(), next() reads
\* m_func(m_it->first).  The outcomes without a fault.
rit_inc_unset(T, lv) ==
    LET lv2 == rit_step([lv EXCEPT ![1].m_past_begin = FALSE], 1)
    IN  IF rit_shallow_end(T, lv2, 1) THEN {lv2} ELSE rit_stray(T, lv2, 1)

\* next() is entered and reads m_it->first.
rit_inc_reads(T, lv) ==
    ~rit_shallow_end(T, rit_step([lv EXCEPT ![1].m_past_begin = FALSE], 1), 1)

\* operator-- of the range iterator, internal level, up to the test of
\* shallow_end(): the sub-iterator's past_begin() is true, so this level
\* sets m_past_begin at its beginning and else moves back and calls
\* previous(), which returns at once when m_past_begin is set and else
\* reads m_func(m_it->first).
rit_dec_move_unset(T, lv) ==
    IF rit_shallow_begin(T, lv, 1) THEN {[lv EXCEPT ![1].m_past_begin = TRUE]}
    ELSE IF rit_shallow_past_begin(rit_step_back(lv, 1), 1) THEN {rit_step_back(lv, 1)}
    ELSE rit_stray(T, rit_step_back(lv, 1), -1)

\* The end of operator--: at shallow_end() the cursor moves back and the
\* loop reads m_func(m_it->first).
rit_dec_from_end_unset(T, lv) ==
    IF rit_shallow_end(T, lv, 1) THEN rit_stray(T, rit_step_back(lv, 1), -1)
    ELSE {lv}

rit_dec_unset(T, lv) ==
    UNION {rit_dec_from_end_unset(T, lv1) : lv1 \in rit_dec_move_unset(T, lv)}

\* previous() or the loop at the end of operator-- reads m_it->first.
rit_dec_reads(T, lv) ==
    \/ /\ ~rit_shallow_begin(T, lv, 1)
       /\ ~rit_shallow_past_begin(rit_step_back(lv, 1), 1)
    \/ \E lv1 \in rit_dec_move_unset(T, lv) : rit_shallow_end(T, lv1, 1)

\* ++it on an empty tree: the states the iterator can be in afterwards,
\* and whether the call can end with a fault.  At depth 0 the iterator is
\* the leaf's, whose operator++ is cursor arithmetic.
inc_empty(T, it) ==
    IF Len(it.lv) = 1 THEN {iter_inc(T, it).lv}
    ELSE IF it.kind = "full" THEN it_inc_unset(T, it.lv)
    ELSE {Unmoved(x) : x \in rit_inc_unset(T, it.lv)}

inc_empty_faults(T, it) ==
    /\ Len(it.lv) > 1
    /\ \/ it.kind = "full"
       \/ Len(it.lv) > 2
       \/ rit_inc_reads(T, it.lv)

\* --it on an empty tree.
dec_empty(T, it) ==
    IF Len(it.lv) = 1 THEN {iter_dec(T, it).lv}
    ELSE IF it.kind = "full" THEN it_dec_unset(T, it.lv)
    ELSE {Unmoved(x) : x \in rit_dec_unset(T, it.lv)}

dec_empty_faults(T, it) ==
    /\ Len(it.lv) > 1
    /\ \/ it.kind = "full"
       \/ Len(it.lv) > 2
       \/ rit_dec_reads(T, it.lv)

\* ++it; on an iterator over the empty tree, placed before.
IncEmpty ==
    /\ Placed(iter)
    /\ size(kd) = 0
    /\ \E out \in {[iter EXCEPT !.lv = lv1, !.walk = "mixed"] :
                      lv1 \in {x \in inc_empty(kd, iter) : Followed(kd, x)}}
                  \cup (IF inc_empty_faults(kd, iter) THEN {Crashed} ELSE {}) :
         iter' = out
    /\ UNCHANGED <<depth, ordered, mergeable, kd, other, hist, last>>

\* --it; on an iterator over the empty tree, placed before.
DecEmpty ==
    /\ Placed(iter)
    /\ size(kd) = 0
    /\ \E out \in {[iter EXCEPT !.lv = lv1, !.walk = "mixed"] :
                      lv1 \in {x \in dec_empty(kd, iter) : Followed(kd, x)}}
                  \cup (IF dec_empty_faults(kd, iter) THEN {Crashed} ELSE {}) :
         iter' = out
    /\ UNCHANGED <<depth, ordered, mergeable, kd, other, hist, last>>

NextEmpty == GetIterator \/ GetRangeIterator \/ ToBegin \/ ToEnd \/ IncEmpty \/ DecEmpty

SpecEmpty == InitIter /\ [][NextEmpty]_vars

(***************************************************************************)
(* search.hpp on its own: the containers are the m_data of a leaf and the  *)
(* m_children of an internal node, up to MaxLen long so that both sides    *)
(* of the threshold are met.  The i-th element is 2 * i, which leaves a    *)
(* value to ask for below, between and above the elements.  The keys of a  *)
(* node are distinct; a leaf filled by add<false> holds equal elements     *)
(* next to each other, here one run of up to MaxRun of them.               *)
(***************************************************************************)
\* The data of n elements in order, those from offset p on for r elements
\* equal.
RunData(n, p, r) ==
    [j \in 1..n |-> [data |-> IF j > p /\ j < p + r THEN 2 * p ELSE 2 * j,
                     metadata |-> 1]]

SearchLeaves ==
    {[m_data |-> RunData(n, p, r)] :
        n \in 0..MaxLen, p \in 1..MaxLen, r \in 1..MaxRun}

SearchNodes ==
    {[m_children |-> [j \in 1..n |->
                         [first |-> 2 * j,
                          second |-> [m_data |-> <<[data |-> 1, metadata |-> 1]>>]]],
      m_size |-> n] : n \in 0..MaxLen}

InitSearch ==
    /\ depth \in {0, 1}
    /\ ordered = TRUE
    /\ mergeable = FALSE
    /\ kd \in IF depth = 0 THEN SearchLeaves ELSE SearchNodes
    /\ other = EmptyNode(depth)
    /\ hist = [calls |-> 0, trues |-> 0, modes |-> {}, others |-> 0, merged |-> FALSE,
               paths |-> <<>>]
    /\ last = NoCall
    /\ iter = NoIter

\* search(m_data, value), with what each of the two strategies returns; one
\* call on each container.
SearchElement ==
    /\ IsLeaf(kd)
    /\ last = NoCall
    /\ \E value \in 1..(2 * Len(kd.m_data) + 1) :
         last' = [op |-> "search", value |-> value,
                  linear |-> element_search_linear(kd.m_data, value),
                  binary |-> element_search_binary(kd.m_data, value),
                  ret |-> search_element(kd.m_data, value)]
    /\ UNCHANGED <<depth, ordered, mergeable, kd, other, hist, iter>>

\* search(m_children, value)
SearchPair ==
    /\ ~IsLeaf(kd)
    /\ last = NoCall
    /\ \E value \in 1..(2 * Len(kd.m_children) + 1) :
         last' = [op |-> "search", value |-> value,
                  linear |-> pair_search_linear(kd.m_children, value),
                  binary |-> pair_search_binary(kd.m_children, value),
                  ret |-> search_pair(kd.m_children, value)]
    /\ UNCHANGED <<depth, ordered, mergeable, kd, other, hist, iter>>

NextSearch == SearchElement \/ SearchPair

SpecSearch == InitSearch /\ [][NextSearch]_vars

(***************************************************************************)
(* Range iterators on wide trees.  The tree is the one that add builds     *)
(* from one element per key path, over w keys at the last of d levels and  *)
(* r keys at each level above it (w elements in the leaf for d = 0); the   *)
(* predicates accept subsets of the keys in use.  Every operation starts   *)
(* the count of the moves anew and leaves it in the iterator.              *)
(***************************************************************************)
RECURSIVE WideNode(_, _, _, _)
WideNode(d, r, w, e) ==
    IF d = 0 THEN [m_data |-> [j \in 1..e |-> [data |-> j, metadata |-> 1]]]
    ELSE Bind(WideNode(d - 1, r, w, e), LAMBDA c :
             [m_children |-> [j \in 1..(IF d = 1 THEN w ELSE r) |->
                                 [first |-> j, second |-> c]],
              m_size |-> (IF d = 1 THEN w ELSE r) * size(c)])

WideTree(d, r, w) == IF d = 0 THEN WideNode(0, r, w, w) ELSE WideNode(d, r, w, 1)

RECURSIVE WideFunctions(_)
WideFunctions(T) ==
    IF IsLeaf(T) THEN {<<>>}
    ELSE {<<f>> \o fs : f \in SUBSET (1..num_keys(T)),
                        fs \in WideFunctions(T.m_children[1].second)}

InitWide ==
    /\ depth \in Depths
    /\ ordered = TRUE
    /\ mergeable = FALSE
    /\ kd \in {WideTree(depth, r, w) : r \in 1..MaxUpper, w \in 1..MaxWide}
    /\ other = EmptyNode(depth)
    /\ hist = [calls |-> 0, trues |-> 0, modes |-> {}, others |-> 0, merged |-> FALSE,
               paths |-> <<>>]
    /\ last = NoCall
    /\ iter = NoIter

GetWideRangeIterator ==
    /\ iter = NoIter
    /\ \E F \in WideFunctions(kd) :
         iter' = NewRangeIterator(depth, F)
    /\ UNCHANGED <<depth, ordered, mergeable, kd, other, hist, last>>

WideToBegin ==
    /\ iter.kind = "range"
    /\ iter' = [iter EXCEPT !.lv = rit_to_begin(kd, iter.F, Unmoved(iter.lv), 1).lv,
                            !.placed = TRUE, !.count = <<>>]
    /\ UNCHANGED <<depth, ordered, mergeable, kd, other, hist, last>>

WideToEnd ==
    /\ iter.kind = "range"
    /\ iter' = [iter EXCEPT !.lv = rit_to_end(kd, iter.F, Unmoved(iter.lv), 1).lv,
                            !.placed = TRUE, !.count = <<>>]
    /\ UNCHANGED <<depth, ordered, mergeable, kd, other, hist, last>>

WideInc ==
    /\ Placed(iter)
    /\ ~iter_end(kd, iter)
    /\ iter' = [iter EXCEPT !.lv = rit_inc(kd, iter.F, Unmoved(iter.lv), 1)]
    /\ UNCHANGED <<depth, ordered, mergeable, kd, other, hist, last>>

WideDec ==
    /\ Placed(iter)
    /\ ~iter_past_begin(kd, iter)
    /\ iter' = [iter EXCEPT !.lv = rit_dec(kd, iter.F, Unmoved(iter.lv), 1)]
    /\ UNCHANGED <<depth, ordered, mergeable, kd, other, hist, last>>

WideCount ==
    /\ iter.kind = "range"
    /\ LET r == rit_count(kd, iter.F, Unmoved(iter.lv), 1)
       IN  iter' = [iter EXCEPT !.lv = r.lv, !.placed = FALSE, !.count = <<r.c>>]
    /\ UNCHANGED <<depth, ordered, mergeable, kd, other, hist, last>>

NextWide ==
    GetWideRangeIterator \/ WideToBegin \/ WideToEnd \/ WideInc \/ WideDec \/ WideCount

SpecWide == InitWide /\ [][NextWide]_vars

(***************************************************************************)
(* ++ on an iterator at end and -- on an iterator past begin, on a tree    *)
(* with entries to visit.  The leaf's ++m_it at m_tree->end() and --m_it   *)
(* at m_tree->begin() are undefined: the call ends with a fault or with    *)
(* the cursor moved as a pointer is.  The iterator is not used again; the  *)
(* model keeps the iterator the call was made on in was.                   *)
(***************************************************************************)
Over(it, lv1) == [kind |-> "over", placed |-> FALSE, was |-> it, lv |-> lv1]

\* ++it at end(): every level clears m_past_begin and increments its
\* sub-iterator; the leaf moves its cursor past m_tree->end(), whose end()
\* is then false, so that no level above moves.
inc_at_end(T, it) == {iter_inc(T, it).lv}

\* --it at past_begin() of the unfiltered iterator with key levels: the
\* leaf's begin() is false, its cursor moves before m_tree->begin(); the
\* sub-iterator's past_begin() is true and shallow_begin() false, so this
\* level moves its cursor before m_tree->begin() too and places the
\* sub-iterator on what &m_it->second gives there, left open here.
it_dec_past_begin(T, lv) ==
    [l \in 1..Len(lv) |-> IF l = 1 THEN [lv[1] EXCEPT !.m_it = @ - 1] ELSE FreshLevel]

\* --it at past_begin(): the leaf and the range iterator move their
\* cursors before m_tree->begin() and read nothing through them
\* (previous() returns at once on m_past_begin).
dec_at_past_begin(T, it) ==
    IF it.kind = "full" /\ Len(it.lv) > 1 THEN {it_dec_past_begin(T, it.lv)}
    ELSE {iter_dec(T, it).lv}

\* ++it; by a client that did not test end().
IncAtEnd ==
    /\ Placed(iter)
    /\ size(kd) > 0
    /\ iter_end(kd, iter) /\ ~iter_past_begin(kd, iter)
    /\ \E out \in {Over(iter, lv1) : lv1 \in inc_at_end(kd, iter)} \cup {Crashed} :
         iter' = out
    /\ UNCHANGED <<depth, ordered, mergeable, kd, other, hist, last>>

\* --it; by a client that did not test past_begin().
DecAtPastBegin ==
    /\ Placed(iter)
    /\ size(kd) > 0
    /\ iter_past_begin(kd, iter) /\ ~iter_end(kd, iter)
    /\ \E out \in {Over(iter, lv1) : lv1 \in dec_at_past_begin(kd, iter)} \cup {Crashed} :
         iter' = out
    /\ UNCHANGED <<depth, ordered, mergeable, kd, other, hist, last>>

NextOver ==
    \/ Build \/ GetIterator \/ GetRangeIterator \/ ToBegin \/ ToEnd \/ Inc \/ Dec
    \/ IncAtEnd \/ DecAtPastBegin

SpecOver == InitIter /\ [][NextOver]_vars

(***************************************************************************)
(* Two iterators of the same tree side by side:  auto a = kd.get_iterator()*)
(* and  auto b = kd.get_range_iterator(fs...)  with functions that return  *)
(* true for every key.  The client makes every call on both.               *)
(***************************************************************************)
\* The functions that accept every key, one per key level.
AcceptAll(d) == [l \in 1..d |-> Keys]

Both(a, b) == [kind |-> "both", placed |-> a.placed, full |-> a, range |-> b]

\* auto a = kd.get_iterator(); auto b = kd.get_range_iterator(fs...);
GetBoth ==
    /\ iter = NoIter
    /\ iter' = Both(NewIterator(depth), NewRangeIterator(depth, AcceptAll(depth)))
    /\ UNCHANGED <<depth, ordered, mergeable, kd, other, hist, last>>

\* a.to_begin(); b.to_begin();
BothToBegin ==
    /\ iter.kind = "both"
    /\ iter' = Both(StartWalk(kd, iter_to_begin(kd, iter.full), "fwd"),
                    StartWalk(kd, iter_to_begin(kd, iter.range), "fwd"))
    /\ UNCHANGED <<depth, ordered, mergeable, kd, other, hist, last>>

\* a.to_end(); b.to_end();
BothToEnd ==
    /\ iter.kind = "both"
    /\ iter' = Both(StartWalk(kd, iter_to_end(kd, iter.full), "bwd"),
                    StartWalk(kd, iter_to_end(kd, iter.range), "bwd"))
    /\ UNCHANGED <<depth, ordered, mergeable, kd, other, hist, last>>

\* ++a; ++b; where neither is at the end.
BothInc ==
    /\ iter.kind = "both" /\ iter.placed
    /\ ~iter_end(kd, iter.full) /\ ~iter_end(kd, iter.range)
    /\ iter' = Both(ContinueWalk(kd, iter_inc(kd, iter.full), "fwd"),
                    ContinueWalk(kd, iter_inc(kd, iter.range), "fwd"))
    /\ UNCHANGED <<depth, ordered, mergeable, kd, other, hist, last>>

\* --a; --b; where neither is past the beginning.
BothDec ==
    /\ iter.kind = "both" /\ iter.placed
    /\ ~iter_past_begin(kd, iter.full) /\ ~iter_past_begin(kd, iter.range)
    /\ iter' = Both(ContinueWalk(kd, iter_dec(kd, iter.full), "bwd"),
                    ContinueWalk(kd, iter_dec(kd, iter.range), "bwd"))
    /\ UNCHANGED <<depth, ordered, mergeable, kd, other, hist, last>>

NextBoth == Build \/ GetBoth \/ BothToBegin \/ BothToEnd \/ BothInc \/ BothDec

SpecBoth == InitIter /\ [][NextBoth]_vars

(***************************************************************************)
(* count() on a range iterator that stands on an entry.  The client keeps  *)
(* what the iterator was before the call in was; lv is the iterator after  *)
(* the call and count what the call returned.                              *)
(***************************************************************************)
Counted(it, r) ==
    [kind |-> "counted", placed |-> FALSE, was |-> it, lv |-> Unmoved(r.lv),
     count |-> <<r.c>>]

\* c = it.count(); where neither it.past_begin() nor it.end() holds.
CountPositioned ==
    /\ iter.kind = "range" /\ Placed(iter)
    /\ ~iter_past_begin(kd, iter) /\ ~iter_end(kd, iter)
    /\ iter' = Counted(iter, rit_count(kd, iter.F, iter.lv, 1))
    /\ UNCHANGED <<depth, ordered, mergeable, kd, other, hist, last>>

NextCount ==
    \/ Build \/ GetRangeIterator \/ ToBegin \/ ToEnd \/ Inc \/ Dec \/ CountPositioned

SpecCount == InitIter /\ [][NextCount]_vars

(***************************************************************************)
(* Trees that only the unique mode has touched: add<true> on either tree   *)
(* and merge<true> of the second into the first.                           *)
(***************************************************************************)
AddUnique == Add /\ last'.unique

AddOtherUnique ==
    /\ hist.calls + hist.others < MaxAdds
    /\ ~hist.merged
    /\ \E ks \in KeyPaths(depth), v \in Vals :
         other' = add(other, [data |-> v, metadata |-> 1], ks, TRUE).node
    /\ hist' = [hist EXCEPT !.others = @ + 1]
    /\ UNCHANGED <<depth, ordered, mergeable, kd, last, iter>>

MergeUnique == Merge /\ last'.unique

NextUnique == AddUnique \/ AddOtherUnique \/ MergeUnique

SpecUnique == Init /\ [][NextUnique]_vars

(***************************************************************************)
(* One add on a node of any size up to MaxLen: on a leaf, whose search is  *)
(* linear or binary by its size, or under a key of an internal node of     *)
(* that many children.                                                     *)
(***************************************************************************)
GrowPaths ==
    IF IsLeaf(kd) THEN {<<>>} ELSE {<<k>> : k \in 1..(2 * num_keys(kd) + 1)}

AddGrow ==
    /\ last = NoCall
    /\ \E ks \in GrowPaths, v \in 1..(2 * size(kd) + 1), unique \in BOOLEAN :
         LET value == [data |-> (IF IsLeaf(kd) THEN v ELSE v % 3), metadata |-> 1]
             r == add(kd, value, ks, unique)
         IN  /\ kd' = r.node
             /\ hist' = [hist EXCEPT !.calls = @ + 1,
                                     !.trues = IF r.ret THEN @ + 1 ELSE @,
                                     !.modes = @ \cup {unique}]
             /\ last' = [op |-> "add", value |-> value, ks |-> ks, unique |-> unique,
                         ret |-> r.ret, pre |-> kd]
    /\ UNCHANGED <<depth, ordered, mergeable, other, iter>>

NextGrow == AddGrow

SpecGrow == InitSearch /\ [][NextGrow]_vars

(***************************************************************************)
(* Properties of add and merge, under Spec.                                *)
(***************************************************************************)
RECURSIVE SumSizes(_)
SumSizes(children) ==
    IF children = <<>> THEN 0
    ELSE size(Head(children).second) + SumSizes(Tail(children))

RECURSIVE SizeConsistent(_)
SizeConsistent(T) ==
    IF IsLeaf(T) THEN size(T) = Len(T.m_data)
    ELSE /\ T.m_size = SumSizes(T.m_children)
         /\ \A j \in 1..Len(T.m_children) : SizeConsistent(T.m_children[j].second)

RECURSIVE SortedKeys(_)
SortedKeys(T) ==
    IF IsLeaf(T) THEN TRUE
    ELSE /\ \A j \in 1..(Len(T.m_children) - 1) :
                T.m_children[j].first < T.m_children[j + 1].first
         /\ \A j \in 1..Len(T.m_children) : SortedKeys(T.m_children[j].second)

\* The value v is stored in T under the key path ks.
RECURSIVE Stored(_, _, _)
Stored(T, ks, v) ==
    IF ks = <<>> THEN \E j \in 1..Len(T.m_data) : T.m_data[j].data = v
    ELSE \E j \in 1..Len(T.m_children) :
             /\ T.m_children[j].first = Head(ks)
             /\ Stored(T.m_children[j].second, Tail(ks), v)

\* T2 is T1 but for the metadata of one element equal to v under the key
\* path ks, which is m larger: same children, same sizes, same elements.
RECURSIVE SameButMetadata(_, _, _, _, _)
SameButMetadata(T1, T2, ks, v, m) ==
    IF ks = <<>> THEN
        \E j \in 1..Len(T1.m_data) :
            /\ T1.m_data[j].data = v
            /\ T2.m_data = [T1.m_data EXCEPT ![j].metadata = @ + m]
    ELSE
        /\ T2.m_size = T1.m_size
        /\ Len(T2.m_children) = Len(T1.m_children)
        /\ \E j \in 1..Len(T1.m_children) :
             /\ T1.m_children[j].first = Head(ks)
             /\ T2.m_children[j].first = Head(ks)
             /\ \A k \in 1..Len(T1.m_children) :
                    k # j => T2.m_children[k] = T1.m_children[k]
             /\ SameButMetadata(T1.m_children[j].second, T2.m_children[j].second,
                                Tail(ks), v, m)

\* C1: after any sequence of adds on an empty tree, size() of the root is
\* the number of adds that returned true when all of them were unique-mode
\* adds, and the number of adds when all of them were non-unique adds.
C1_SizeCountsAdds ==
    ~hist.merged =>
        /\ hist.modes \subseteq {TRUE} => size(kd) = hist.trues
        /\ hist.modes \subseteq {FALSE} => size(kd) = hist.calls

\* Three unique-mode adds on a tree of depth 2, one of which returned false.
C1_Witness ==
    /\ ~hist.merged /\ depth = 2 /\ hist.modes = {TRUE}
    /\ hist.calls = 3 /\ hist.trues = 2

\* C2: after every add, add_empty and merge, the cached size of every
\* internal node is the sum of the sizes of its children, and the size of
\* a leaf is its number of elements.
C2_SizesConsistent == SizeConsistent(kd) /\ (~hist.merged => SizeConsistent(other))

\* A merge into a non-empty tree of depth 2 that added at least two elements
\* and found one key of the other tree already there.
C2_Witness ==
    /\ last.op = "merge" /\ depth = 2 /\ size(last.pre) >= 1 /\ last.ret >= 2
    /\ \E j \in 1..Len(last.t.m_children), k \in 1..Len(last.pre.m_children) :
           last.t.m_children[j].first = last.pre.m_children[k].first

\* C3: after add and merge, the children of every internal node are in
\* strictly increasing order of their keys.
C3_KeysSorted == SortedKeys(kd) /\ (~hist.merged => SortedKeys(other))

\* An add whose first key is smaller than every key of the root.
C3_Witness ==
    /\ last.op = "add" /\ depth >= 1 /\ Len(last.pre.m_children) >= 1
    /\ last.ks[1] < last.pre.m_children[1].first
    /\ Len(kd.m_children) = Len(last.pre.m_children) + 1

\* C4: a unique-mode add of a value that its leaf already stores returns
\* false and adds no element: the tree is the one before the call, but for
\* the metadata of the stored element when the metadata is mergeable.
C4_UniqueAddOfStored ==
    (last.op = "add" /\ last.unique /\ Stored(last.pre, last.ks, last.value.data)) =>
        /\ ~last.ret
        /\ IF mergeable
           THEN SameButMetadata(last.pre, kd, last.ks, last.value.data,
                                last.value.metadata)
           ELSE kd = last.pre

\* A unique-mode add, on a tree of depth 2 with mergeable metadata, of a
\* value stored in a leaf of two elements.
C4_Witness ==
    /\ last.op = "add" /\ last.unique /\ mergeable /\ depth = 2
    /\ Stored(last.pre, last.ks, last.value.data)
    /\ size(last.pre) = 2 /\ Len(last.pre.m_children) = 1
    /\ size(kd) = 2

(***************************************************************************)
(* Properties of the iterators, under SpecIter.                            *)
(***************************************************************************)
\* The elements of T in the lexicographic order of their key paths, those
\* of a leaf in the order of the leaf.
RECURSIVE Entries(_, _)
RECURSIVE EntriesFrom(_, _, _)
Entries(T, prefix) ==
    IF IsLeaf(T) THEN [j \in 1..Len(T.m_data) |-> [keys |-> prefix, off |-> j - 1]]
    ELSE EntriesFrom(T, prefix, 1)
EntriesFrom(T, prefix, k) ==
    IF k > MaxKey THEN <<>>
    ELSE LET cs == {j \in 1..Len(T.m_children) : T.m_children[j].first = k}
         IN  (IF cs = {} THEN <<>>
              ELSE Entries(T.m_children[CHOOSE j \in cs : TRUE].second,
                           Append(prefix, k)))
             \o EntriesFrom(T, prefix, k + 1)

\* Every key of the path is accepted by the predicate of its level.
Valid(e, F) == \A l \in 1..Len(e.keys) : e.keys[l] \in F[l]
ValidEntries(T, F) == SelectSeq(Entries(T, <<>>), LAMBDA e : Valid(e, F))

IsPrefix(s, t) == Len(s) <= Len(t) /\ SubSeq(t, 1, Len(s)) = s
Reverse(s) == [j \in 1..Len(s) |-> s[Len(s) + 1 - j]]

\* The loop  for (it.to_begin(); !it.end(); ++it)  run to its end, n steps
\* at most, on the iterator it.
RECURSIVE WalkForward(_, _, _)
WalkForward(T, it, n) ==
    IF n = 0 \/ iter_end(T, it) THEN it
    ELSE WalkForward(T, ContinueWalk(T, iter_inc(T, it), "fwd"), n - 1)
ForwardSeen(T, it) ==
    WalkForward(T, StartWalk(T, iter_to_begin(T, it), "fwd"), size(T) + 1).seen

PlusSeen(T) == PlusWalk(T, iter_to_begin(T, NewIterator(depth)), size(T) + 1)

\* C5: what the unfiltered iterator gives when it walks back from to_end()
\* until past_begin() is the reverse of what it gives when it walks from
\* to_begin() until end().
C5_BackwardIsReverse ==
    (iter.kind = "full" /\ iter.walk = "bwd" /\ iter_past_begin(kd, iter)) =>
        iter.seen = Reverse(ForwardSeen(kd, NewIterator(depth)))

\* A complete walk back over three elements in two subtrees of the root.
C5_Witness ==
    /\ iter.kind = "full" /\ iter.walk = "bwd" /\ iter_past_begin(kd, iter)
    /\ depth = 2 /\ Len(iter.seen) = 3 /\ Len(kd.m_children) = 2

\* C6: the unfiltered iterator, walking from to_begin() until end(), gives
\* every element of the tree once, size() of them, in the lexicographic
\* order of the key paths.
C6_ForwardVisitsAll ==
    (iter.kind = "full" /\ iter.walk = "fwd") =>
        /\ IsPrefix(iter.seen, Entries(kd, <<>>))
        /\ iter_end(kd, iter) =>
               iter.seen = Entries(kd, <<>>) /\ Len(iter.seen) = size(kd)

\* A complete walk over three elements in two subtrees of the root.
C6_Witness ==
    /\ iter.kind = "full" /\ iter.walk = "fwd" /\ iter_end(kd, iter)
    /\ depth = 2 /\ Len(iter.seen) = 3 /\ Len(kd.m_children) = 2

\* C7: the range iterator, walking from to_begin() until end(), gives the
\* elements whose key path is accepted at every level, once each and in
\* the order of the unfiltered iterator; it stops nowhere else.
C7_RangeVisitsValid ==
    (iter.kind = "range" /\ iter.walk = "fwd") =>
        LET valid == SelectSeq(ForwardSeen(kd, NewIterator(depth)),
                               LAMBDA e : Valid(e, iter.F))
        IN  /\ IsPrefix(iter.seen, valid)
            /\ iter_end(kd, iter) => iter.seen = valid

\* A complete walk that gave one element of three: the first key of the
\* root is accepted, but nothing below it is.
C7_Witness ==
    /\ iter.kind = "range" /\ iter.walk = "fwd" /\ iter_end(kd, iter)
    /\ depth = 2 /\ size(kd) = 3 /\ Len(kd.m_children) = 2 /\ Len(iter.seen) = 1
    /\ kd.m_children[1].first \in iter.F[1]
    /\ iter.seen[1].keys[1] = kd.m_children[2].first

\* C8: count() is the number of ++ that take the range iterator from
\* to_begin() to end().  Every ++ leaves a position that is not the end,
\* and seen has one element for each such position.
C8_CountIsSteps ==
    (iter.kind = "range" /\ iter.walk = "fwd" /\ iter_end(kd, iter)) =>
        /\ iter.count # <<>> => iter.count[1] = Len(iter.seen)
        /\ rit_count(kd, iter.F, iter.lv, 1).c = Len(iter.seen)

\* count() returned 2 on a tree of three elements, and the walk has ended.
C8_Witness ==
    /\ iter.kind = "range" /\ iter.walk = "fwd" /\ iter_end(kd, iter)
    /\ depth = 2 /\ size(kd) = 3 /\ iter.count = <<2>> /\ Len(iter.seen) = 2

\* The tree is not empty, every predicate accepts a key of its level, and
\* no key path is accepted at every level.
NoMatch(T, F) ==
    LET es == Entries(T, <<>>)
    IN  /\ es # <<>>
        /\ F # <<>>
        /\ \A l \in 1..Len(F) : \E j \in 1..Len(es) : es[j].keys[l] \in F[l]
        /\ \A j \in 1..Len(es) : ~Valid(es[j], F)

\* C9: on a tree that is not empty, with predicates that each accept a key
\* of their level but together accept no key path, the iterator that
\* get_const_range_iterator_begin returns has past_begin() and end() true
\* and begin() false.
C9_NoMatchIsPastBeginAndEnd ==
    \A F \in Functions(depth) :
        NoMatch(kd, F) =>
            LET lv == get_range_iterator_begin(kd, F, depth)
            IN  /\ rit_past_begin(kd, lv, 1)
                /\ rit_end(kd, lv, 1)
                /\ ~rit_begin(kd, lv, 1)

\* to_begin() has run with such predicates on a new iterator of a tree of
\* depth 2: the first key of the root leads nowhere, for the second level.
C9_Witness ==
    /\ iter.kind = "range" /\ iter.walk = "fwd" /\ depth = 2
    /\ NoMatch(kd, iter.F)
    /\ iter.lv = get_range_iterator_begin(kd, iter.F, depth)
    /\ kd.m_children[1].first \in iter.F[1]

\* The first element that a walk of the iterator gives.
FirstEntry(T, it) ==
    IF it.kind = "full" THEN Entries(T, <<>>)[1] ELSE ValidEntries(T, it.F)[1]

\* C10: for both iterators, -- at the begin position of an iteration that
\* is not empty makes past_begin() true, begin() and end() false; the ++
\* that follows makes past_begin() false and begin() true again, with the
\* first element under the iterator.  It holds for every -- of a run, so
\* for every repetition of the pair.
C10_BounceBack ==
    [][(Dec /\ iter_begin(kd, iter)) =>
           /\ iter_past_begin(kd, iter')
           /\ ~iter_begin(kd, iter')
           /\ ~iter_end(kd, iter')
           /\ LET back == iter_inc(kd, iter')
              IN  /\ ~iter_past_begin(kd, back)
                  /\ iter_begin(kd, back)
                  /\ ~iter_end(kd, back)
                  /\ Entry(kd, back) = FirstEntry(kd, back)]_vars

\* A range iterator that -- has moved from its begin position, on a tree
\* of depth 2 whose first element it does not accept.
C10_Witness ==
    /\ iter.kind = "range" /\ Placed(iter) /\ iter.walk = "mixed" /\ depth = 2
    /\ iter_past_begin(kd, iter) /\ ~iter_end(kd, iter)
    /\ ValidEntries(kd, iter.F) # <<>>
    /\ ~Valid(Entries(kd, <<>>)[1], iter.F)

\* What a complete walk of the iterator gives.
Expected(T, it) ==
    IF it.kind = "full" THEN Entries(T, <<>>) ELSE ValidEntries(T, it.F)

\* The iterator is on the last element of its iteration.
AtLast(T, it) ==
    /\ Expected(T, it) # <<>>
    /\ ~iter_end(T, it) /\ ~iter_past_begin(T, it)
    /\ Entry(T, it) = Expected(T, it)[Len(Expected(T, it))]

\* C11: for both iterators, ++ on the last element of an iteration that is
\* not empty reaches end(), and the -- that follows is on the last element
\* again; -- at end() is on the last element, and the ++ that follows is at
\* end() again.  It holds for every ++ and -- of a run, so for every
\* repetition.
C11_EndOscillation ==
    [][/\ (Inc /\ AtLast(kd, iter)) =>
              /\ iter_end(kd, iter')
              /\ AtLast(kd, iter_dec(kd, iter'))
       /\ (Dec /\ Placed(iter) /\ iter_end(kd, iter) /\ Expected(kd, iter) # <<>>) =>
              /\ AtLast(kd, iter')
              /\ iter_end(kd, iter_inc(kd, iter'))]_vars

\* A range iterator that -- has moved back from end(), on a tree of depth 2
\* whose last element it does not accept and of which it accepts two.
C11_Witness ==
    /\ iter.kind = "range" /\ Placed(iter) /\ iter.walk = "mixed" /\ depth = 2
    /\ AtLast(kd, iter)
    /\ size(kd) = 3 /\ Len(ValidEntries(kd, iter.F)) = 2
    /\ ~Valid(Entries(kd, <<>>)[3], iter.F)


\* C12: in every state of an iterator, begin() is true exactly when
\* past_begin() is false and the cursors are on the first element of the
\* iteration (the first position of the leftmost valid path); begin() and
\* past_begin() are never both true, an empty tree included.
AtFirst(T, it) ==
    /\ Expected(T, it) # <<>>
    /\ ~iter_end(T, it)
    /\ Entry(T, it) = Expected(T, it)[1]

C12_BeginIffFirst ==
    Placed(iter) =>
        /\ iter_begin(kd, iter) <=> (~iter_past_begin(kd, iter) /\ AtFirst(kd, iter))
        /\ ~(iter_begin(kd, iter) /\ iter_past_begin(kd, iter))


\* C13: on an empty tree every sequence of to_begin(), to_end(), ++ and --
\* on an unfiltered or a range iterator is safe: no call ends with a fault,
\* past_begin() and end() are both true after every call, and the cursor
\* of every level that was given a tree is within its container.
C13_EmptyTreeSafe ==
    (size(kd) = 0 /\ (Placed(iter) \/ iter = Crashed)) =>
        /\ iter # Crashed
        /\ iter_past_begin(kd, iter)
        /\ iter_end(kd, iter)
        /\ \A l \in 1..Len(iter.lv) :
               (iter.lv[l].tree_set /\ iter.lv[l].it_set) => InContainer(kd, iter.lv, l)


\* C14: on an empty tree of any depth, depth 0 included, the iterator that
\* get_const_iterator() returns reports end() and past_begin() both true
\* before any call of to_begin() or to_end().
Fresh(it) == it.kind = "full" /\ ~it.placed

C14_FreshOnEmpty ==
    (Fresh(iter) /\ size(kd) = 0) =>
        /\ iter_end(kd, iter)
        /\ iter_past_begin(kd, iter)


\* C15: in either mode, A.merge(B) returns A.size() after the call minus
\* A.size() before it; it returns 0 when every element of B is already in
\* A and the mode is unique.
C15_MergeReturnsGrowth ==
    last.op = "merge" =>
        /\ last.ret = size(kd) - size(last.pre)
        /\ last.ret = Len(Entries(kd, <<>>)) - Len(Entries(last.pre, <<>>))

C15_Witness ==
    /\ last.op = "merge"
    /\ last.unique
    /\ depth = 2
    /\ size(last.t) > 0
    /\ last.ret = 0


\* What a forward iteration over T gives: the elements with their key
\* paths, the children and the elements of a leaf in the order they are
\* stored in.
RECURSIVE Items(_, _)
RECURSIVE ItemsFrom(_, _, _)
Items(T, prefix) ==
    IF IsLeaf(T) THEN [j \in 1..Len(T.m_data) |-> [keys |-> prefix, value |-> T.m_data[j]]]
    ELSE ItemsFrom(T, prefix, 1)
ItemsFrom(T, prefix, j) ==
    IF j > Len(T.m_children) THEN <<>>
    ELSE Items(T.m_children[j].second, Append(prefix, T.m_children[j].first))
         \o ItemsFrom(T, prefix, j + 1)

\* kd.add<unique>(value, keys...) for every element of items, in order.
RECURSIVE AddAll(_, _, _)
AddAll(T, items, unique) ==
    IF items = <<>> THEN T
    ELSE AddAll(add(T, Head(items).value, Head(items).keys, unique).node,
                Tail(items), unique)

\* No leaf of T stores an element twice.
RECURSIVE NoRepeats(_)
NoRepeats(T) ==
    IF IsLeaf(T) THEN
        \A i, j \in 1..Len(T.m_data) : T.m_data[i].data = T.m_data[j].data => i = j
    ELSE \A j \in 1..Len(T.m_children) : NoRepeats(T.m_children[j].second)

Positioned(T, it) == Placed(it) /\ ~iter_past_begin(T, it) /\ ~iter_end(T, it)

C19_PositionedIsStored ==
    Positioned(kd, iter) =>
        /\ \A l \in 1..Len(iter.lv) :
               /\ iter.lv[l].tree_set
               /\ iter.lv[l].m_it \in 0..(tree_end(kd, iter.lv, l) - 1)
               /\ l < Len(iter.lv) => iter.lv[l + 1].m_tree = child_pointer(iter.lv, l)
        /\ \E i \in 1..Len(Expected(kd, iter)) : Expected(kd, iter)[i] = Entry(kd, iter)

C19_Witness ==
    /\ Positioned(kd, iter)
    /\ iter.kind = "range"
    /\ iter.walk = "mixed"
    /\ depth = 2
    /\ size(kd) = 3
    /\ Len(ValidEntries(kd, iter.F)) = 2
    /\ Entry(kd, iter) = ValidEntries(kd, iter.F)[1]
    /\ ~Valid(Entries(kd, <<>>)[1], iter.F)

\* C20: on a tree that is not empty, or with a range iterator that some
\* element matches, past_begin() and end() are never both true in a state
\* reached by to_begin(), to_end(), ++ (not at the end) and -- (not past
\* the beginning): the iterator is past the beginning, or positioned, or at
\* the end, and only one of the three.
C20_NeverBothOnNonEmpty ==
    (Placed(iter) /\ Expected(kd, iter) # <<>>) =>
        ~(iter_past_begin(kd, iter) /\ iter_end(kd, iter))

C20_Witness ==
    /\ Placed(iter)
    /\ iter.kind = "range"
    /\ iter.walk = "mixed"
    /\ depth = 2
    /\ size(kd) = 3
    /\ Len(ValidEntries(kd, iter.F)) = 1
    /\ iter_end(kd, iter)
    /\ ~iter_past_begin(kd, iter)

\* C21: end() is true exactly when the cursor of the root level is one
\* past the last child (for a range iterator: the last child with an
\* element the predicates accept); with the root cursor there, the
\* iterator of every level below reports end() too, and end() is not true
\* with the root cursor on a child.
RootAtEnd(T, it) ==
    IF Len(it.lv) = 1 THEN it.lv[1].m_it = tree_end(T, it.lv, 1)
    ELSE IF it.kind = "full" THEN it_shallow_end(T, it.lv, 1)
    ELSE rit_shallow_end(T, it.lv, 1)

LevelAtEnd(T, it, l) ==
    IF it.kind = "full" THEN it_end(T, it.lv, l) ELSE rit_end(T, it.lv, l)

\* The offset one past the last child of the root that the iteration
\* visits.
ChildOf(T, k) == CHOOSE j \in 1..Len(T.m_children) : T.m_children[j].first = k
RootLast(T, it) ==
    IF IsLeaf(T) \/ it.kind = "full" THEN tree_end(T, it.lv, 1)
    ELSE ChildOf(T, Expected(T, it)[Len(Expected(T, it))].keys[1])

C22_RangeBackwardIsReverse ==
    (iter.kind = "range" /\ iter.walk = "bwd" /\ iter_past_begin(kd, iter)) =>
        /\ iter.seen = Reverse(ForwardSeen(kd, NewRangeIterator(depth, iter.F)))
        /\ iter.seen = Reverse(ValidEntries(kd, iter.F))

\* A complete walk back that gave two elements of three, with the last
\* child of the root rejected.
C22_Witness ==
    /\ iter.kind = "range" /\ iter.walk = "bwd" /\ iter_past_begin(kd, iter)
    /\ depth = 2 /\ size(kd) = 3 /\ Len(iter.seen) = 2
    /\ kd.m_children[Len(kd.m_children)].first \notin iter.F[1]

(***************************************************************************)
(* Properties of count and of the leaves, under SpecIter and Spec.         *)
(***************************************************************************)
\* C24: count() on a range iterator returns the number of entries of the
\* tree whose keys satisfy all the predicates, in whatever state the
\* iterator is when it is called: fresh, at begin, in the middle, at end or
\* past begin, or left behind by an earlier count().
C24_CountIsValidEntries ==
    iter.kind = "range" =>
        /\ rit_count(kd, iter.F, iter.lv, 1).c = Len(ValidEntries(kd, iter.F))
        /\ iter.count # <<>> => iter.count[1] = Len(ValidEntries(kd, iter.F))

\* count() returned 2 on a tree of 3 entries, and the iterator was then
\* taken to the second of the two valid entries, where it is neither at
\* begin nor at end.
C24_Witness ==
    /\ iter.kind = "range" /\ Placed(iter) /\ iter.walk = "fwd"
    /\ ~iter_end(kd, iter) /\ ~iter_past_begin(kd, iter)
    /\ size(kd) = 3 /\ iter.count = <<2>> /\ Len(iter.seen) = 2

\* C25: in a tree that only add<true> and merge<true> have changed, the
\* merged tree being built with add<true> as well, no leaf holds two
\* entries of equal data.
C25_UniqueLeavesHaveNoRepeats == NoRepeats(kd) /\ NoRepeats(other)

\* A merge<true> met data that the tree already held, and left a tree of
\* two entries or more.
C25_Witness ==
    /\ last.op = "merge" /\ last.unique /\ last.ret < size(last.t)
    /\ size(last.pre) >= 1 /\ size(kd) >= 2

\* The entries met under the keys ks, in the order of the forward
\* iteration of T.
ItemsUnder(T, ks) == SelectSeq(Items(T, <<>>), LAMBDA e : e.keys = ks)

AddedLast == [keys |-> last.ks, value |-> last.value]

SeenUnder(T, ks) == SelectSeq(PlusSeen(T), LAMBDA t : Tail(t) = ks)

\* C28: with data that has equality and no ordering, add<true> of data
\* that its leaf lacks makes the forward iteration visit it after the
\* entries that the leaf held, in their order; add<true> of data that the
\* leaf holds leaves every entry at its place, and changes no more than the
\* metadata of the entry of that data.
C28_FirstInsertionOrder ==
    (last.op = "add" /\ last.unique /\ ~ordered) =>
        LET old == SeenUnder(last.pre, last.ks)
            new == SeenUnder(kd, last.ks)
            held == \E j \in 1..Len(old) : old[j][1].data = last.value.data
        IN  /\ last.ret = ~held
            /\ ~held => new = Append(old, <<last.value>> \o last.ks)
            /\ held =>
                 /\ Len(new) = Len(old)
                 /\ \A j \in 1..Len(old) :
                      /\ new[j][1].data = old[j][1].data
                      /\ new[j][1].metadata =
                             IF mergeable /\ old[j][1].data = last.value.data
                             THEN old[j][1].metadata + last.value.metadata
                             ELSE old[j][1].metadata

\* The first entry that the iteration visits under the keys was added
\* twice, has the metadata of both adds, and precedes an entry of smaller
\* data.
C28_Witness ==
    /\ last.op = "add" /\ last.unique /\ ~ordered /\ mergeable /\ ~last.ret
    /\ LET new == SeenUnder(kd, last.ks)
       IN  /\ Len(new) >= 2
           /\ new[1][1] = [data |-> last.value.data, metadata |-> 2]
           /\ new[2][1].data < new[1][1].data

RECURSIVE LeavesHaveNoKeys(_)
LeavesHaveNoKeys(T) ==
    IF IsLeaf(T) THEN num_keys(T) = 0
    ELSE \A j \in 1..Len(T.m_children) : LeavesHaveNoKeys(T.m_children[j].second)

\* C29: num_keys() of a leaf, the whole tree when it has no key level or
\* the last level of a deeper tree, is 0 however many entries the leaf
\* holds.
C29_LeafNumKeysZero == LeavesHaveNoKeys(kd)

\* C30: where neither past_begin() nor end() holds, +it is a tuple of the
\* element that *it gives, data and metadata, and then of the keys that the
\* element was added with, the key of the root level first.
C30_PlusIsElementAndKeys ==
    (Placed(iter) /\ ~iter_past_begin(kd, iter) /\ ~iter_end(kd, iter)) =>
        LET t == iter_plus(kd, iter)
        IN  /\ Len(t) = depth + 1
            /\ t[1] = iter_star(kd, iter)
            /\ t[1].data \in 1..Len(hist.paths)
            /\ Tail(t) = hist.paths[t[1].data]

\* A range iterator stands on the second of the elements that its
\* predicates accept, one that was added with two different keys.
C30_Witness ==
    /\ Placed(iter) /\ ~iter_past_begin(kd, iter) /\ ~iter_end(kd, iter)
    /\ iter.kind = "range" /\ iter.walk = "fwd" /\ Len(iter.seen) = 2
    /\ depth = 2 /\ size(kd) = 3
    /\ iter_plus(kd, iter)[2] # iter_plus(kd, iter)[3]

(***************************************************************************)
(* Properties of the moves of a range iterator, under SpecWide.            *)
(***************************************************************************)
RECURSIVE SumOf(_)
SumOf(ns) == IF ns = <<>> THEN 0 ELSE Head(ns) + SumOf(Tail(ns))

\* The number of nodes of a tree, internal nodes and leaves.
RECURSIVE Nodes(_)
Nodes(T) ==
    IF IsLeaf(T) THEN 1
    ELSE 1 + SumOf([j \in 1..Len(T.m_children) |-> Nodes(T.m_children[j].second)])

\* The moves of the call that the iterator went through last.
Moves == iter.lv[1].moves

\* C23 as stated: every call of to_begin(), to_end(), ++, -- and count() on
\* a range iterator returns after at most as many cursor moves as the tree
\* has nodes.
C23_MovesWithinNodes == iter.kind = "range" => Moves <= Nodes(kd)

\* C23, amended: every such call returns; count() makes at most as many
\* moves as the tree has nodes, and the other calls at most that many on a
\* tree of up to one key level and at most 2^(n-1) times that many on a tree
\* of n key levels, since to_begin() and to_end() scan every node they
\* enter from both of its ends and enter twice a child that holds both the
\* first and the last valid element.
C23_MovesBounded ==
    iter.kind = "range" =>
        /\ iter.count # <<>> => Moves <= Nodes(kd)
        /\ Moves <= (IF depth <= 1 THEN 1 ELSE 2 ^ (depth - 1)) * Nodes(kd)

\* A call placed the iterator with more moves than the tree has nodes.
C23_Witness == Placed(iter) /\ iter.kind = "range" /\ Moves > Nodes(kd)

(***************************************************************************)
(* Properties of add on large nodes, under SpecGrow.                       *)
(***************************************************************************)
SortedData(v) == \A i \in 1..(Len(v) - 1) : v[i].data <= v[i + 1].data
StrictData(v) == \A i \in 1..(Len(v) - 1) : v[i].data < v[i + 1].data

RECURSIVE SortedLeaves(_)
SortedLeaves(T) ==
    IF IsLeaf(T) THEN SortedData(T.m_data)
    ELSE \A j \in 1..Len(T.m_children) : SortedLeaves(T.m_children[j].second)

RECURSIVE StrictLeaves(_)
StrictLeaves(T) ==
    IF IsLeaf(T) THEN StrictData(T.m_data)
    ELSE \A j \in 1..Len(T.m_children) : StrictLeaves(T.m_children[j].second)

Index(T, it) ==
    LET E == Expected(T, it)
    IN  IF iter_past_begin(T, it) THEN -1
        ELSE IF iter_end(T, it) THEN Len(E)
        ELSE IF \E j \in 1..Len(E) : E[j] = Entry(T, it)
             THEN (CHOOSE j \in 1..Len(E) : E[j] = Entry(T, it)) - 1
             ELSE -2

IndexMachine(T, it) ==
    LET N == Len(Expected(T, it))
    IN  /\ Index(T, iter_to_begin(T, it)) = 0
        /\ Index(T, iter_to_end(T, it)) = N - 1
        /\ Placed(it) =>
             /\ Index(T, it) \in -1..N
             /\ iter_past_begin(T, it) <=> Index(T, it) = -1
             /\ iter_end(T, it) <=> Index(T, it) = N
             /\ iter_begin(T, it) <=> Index(T, it) = 0
             /\ ~iter_end(T, it) => Index(T, iter_inc(T, it)) = Index(T, it) + 1
             /\ ~iter_past_begin(T, it) => Index(T, iter_dec(T, it)) = Index(T, it) - 1

\* C31 as stated: an iterator is an index i in -1..N into the list of the N
\* entries it visits: to_begin() makes i = 0, to_end() makes i = N - 1, ++
\* adds 1 where i < N and -- subtracts 1 where i > -1; past_begin() is
\* i = -1, end() is i = N, begin() is i = 0.
C31_IndexMachine == iter.kind \in {"full", "range"} => IndexMachine(kd, iter)

\* C31, amended: the same, for an iterator that has an entry to visit.
C31_IndexMachineNonEmpty ==
    (iter.kind \in {"full", "range"} /\ Expected(kd, iter) # <<>>) =>
        IndexMachine(kd, iter)

\* After ++ and -- in some interleaving a range iterator stands on the
\* second of three entries.
C31_Witness ==
    /\ Placed(iter) /\ iter.kind = "range" /\ iter.walk = "mixed"
    /\ Len(Expected(kd, iter)) = 3 /\ Index(kd, iter) = 1

(***************************************************************************)
(* Properties of ++ at end and -- past begin, under SpecOver.              *)
(***************************************************************************)
\* The iterator that an undefined ++ or -- left, as far as it can be read.
Left == [iter.was EXCEPT !.lv = iter.lv]

\* C32: ++ on an iterator at end() and -- on an iterator at past_begin()
\* return, leave the cursor of every level within begin() .. end() of its
\* container, and leave past_begin(), begin() and end() as they were.
C32_OverrunIsHarmless ==
    /\ iter # Crashed
    /\ iter.kind = "over" =>
         /\ \A l \in 1..Len(iter.lv) : InContainer(kd, iter.lv, l)
         /\ iter_past_begin(kd, Left) = iter_past_begin(kd, iter.was)
         /\ iter_begin(kd, Left) = iter_begin(kd, iter.was)
         /\ iter_end(kd, Left) = iter_end(kd, iter.was)

(***************************************************************************)
(* Properties of the sizes of subtrees, under Spec.                        *)
(***************************************************************************)

RECURSIVE ChildrenNonEmpty(_)
\* Every child stored in an internal node of T, at any level, has an element.
ChildrenNonEmpty(T) ==
    \/ IsLeaf(T)
    \/ \A j \in 1..Len(T.m_children) :
            /\ size(T.m_children[j].second) >= 1
            /\ ChildrenNonEmpty(T.m_children[j].second)

RECURSIVE EmptyIffNoKeys(_)
\* At every internal node of T, size() is 0 exactly when num_keys() is.
EmptyIffNoKeys(T) ==
    \/ IsLeaf(T)
    \/ /\ (size(T) = 0) <=> (num_keys(T) = 0)
       /\ \A j \in 1..Len(T.m_children) : EmptyIffNoKeys(T.m_children[j].second)

\* C33: in a tree built from an empty tree by add and merge, every child
\* stored in an internal node has size() >= 1, and at every internal node
\* size() = 0 if and only if num_keys() = 0.
C33_ChildrenNonEmpty ==
    /\ ChildrenNonEmpty(kd) /\ EmptyIffNoKeys(kd)
    /\ ChildrenNonEmpty(other) /\ EmptyIffNoKeys(other)

\* A tree of two levels of keys with two keys at the root, after a merge.
C33_Witness ==
    /\ depth = 2
    /\ hist.merged
    /\ num_keys(kd) >= 2
    /\ \A j \in 1..Len(kd.m_children) : num_keys(kd.m_children[j].second) >= 1

(***************************************************************************)
(* The range iterator that accepts every key, under SpecBoth.              *)
(***************************************************************************)

\* The two iterators answer begin(), past_begin() and end() alike and,
\* where neither past_begin() nor end() holds, give the same entry.
SameAnswers(T, a, b) ==
    /\ iter_begin(T, a) = iter_begin(T, b)
    /\ iter_past_begin(T, a) = iter_past_begin(T, b)
    /\ iter_end(T, a) = iter_end(T, b)
    /\ Positioned(T, a) => Entry(T, a) = Entry(T, b)

\* C34: after the same sequence of to_begin(), to_end(), ++ and -- on the
\* same tree, a range iterator whose predicates accept every key and the
\* unfiltered iterator report the same begin(), past_begin() and end() and
\* dereference the same entry.
C34_AcceptAllIsUnfiltered ==
    (iter.kind = "both" /\ iter.placed) => SameAnswers(kd, iter.full, iter.range)

(***************************************************************************)
(* Properties of count() on a positioned iterator, under SpecCount.        *)
(***************************************************************************)

\* C35 as stated: count() on a positioned range iterator leaves begin(),
\* past_begin(), end() and the dereferenced entry as they were, and ++ and
\* -- go on from the position the iterator had.
C35_CountKeepsPosition ==
    iter.kind = "counted" =>
        /\ iter_begin(kd, Left) = iter_begin(kd, iter.was)
        /\ iter_past_begin(kd, Left) = iter_past_begin(kd, iter.was)
        /\ iter_end(kd, Left) = iter_end(kd, iter.was)
        /\ Entry(kd, Left) = Entry(kd, iter.was)
        /\ iter_inc(kd, Left).lv = iter_inc(kd, iter.was).lv
        /\ iter_dec(kd, Left).lv = iter_dec(kd, iter.was).lv

\* C35, amended: count() on a positioned range iterator of a tree without
\* key levels changes nothing in the iterator; with key levels it leaves
\* the root cursor behind the last child and the limits at the whole node,
\* so that begin() and past_begin() are false afterwards, whatever they
\* were, and no entry is dereferenced.
C35_CountMovesToEnd ==
    iter.kind = "counted" =>
        IF depth = 0 THEN iter.lv = iter.was.lv
        ELSE /\ iter.lv[1].m_it = tree_end(kd, iter.lv, 1)
             /\ iter.lv[1].m_it_idx = num_keys(kd)
             /\ iter.lv[1].m_begin_idx = 0
             /\ iter.lv[1].m_end_idx = num_keys(kd)
             /\ rit_shallow_end(kd, iter.lv, 1)
             /\ ~iter_begin(kd, Left)
             /\ ~iter_past_begin(kd, Left)

\* count() was called on an iterator at the first of two or more accepted
\* entries of a tree with key levels.
C35_Witness ==
    /\ iter.kind = "counted"
    /\ depth >= 1
    /\ iter_begin(kd, iter.was)
    /\ iter.count[1] >= 2

(***************************************************************************)
(* What a merge and an add keep, under Spec and SpecUnique.                *)
(***************************************************************************)

\* The (key path, value) pairs stored in T.
Pairs(T) ==
    LET items == Items(T, <<>>)
    IN  {[keys |-> items[j].keys, data |-> items[j].value.data] : j \in 1..Len(items)}

\* C36: A.merge(B) neither loses nor invents entries: the (key path, value)
\* pairs stored in A after the merge are those stored in A before it
\* together with those stored in B, and in non-unique mode A.size() grows
\* by B.size().
C36_MergeIsUnion ==
    last.op = "merge" =>
        /\ Pairs(kd) = Pairs(last.pre) \cup Pairs(last.t)
        /\ ~last.unique => size(kd) = size(last.pre) + size(last.t)

\* A non-unique merge of two trees with key levels, both with elements,
\* that have a pair in common and one each that the other has not.
C36_Witness ==
    /\ last.op = "merge" /\ ~last.unique
    /\ depth >= 1
    /\ Pairs(last.pre) \cap Pairs(last.t) # {}
    /\ Pairs(last.pre) \ Pairs(last.t) # {}

\* The sum of the metadata of the entries stored in T.
MetadataSum(T) ==
    LET items == Items(T, <<>>)
    IN  SumOf([j \in 1..Len(items) |-> items[j].value.metadata])

\* C37: with metadata that is merged with +=, after unique-mode adds and
\* unique-mode merges the metadata of the stored entries add up to the
\* metadata passed to the add calls, 1 in each, and after a merge to the
\* sum over A before it plus the sum over B.
C37_MetadataSumKept ==
    mergeable =>
        /\ MetadataSum(kd) + MetadataSum(other) = hist.calls + hist.others
        /\ last.op = "merge" =>
               MetadataSum(kd) = MetadataSum(last.pre) + MetadataSum(last.t)

\* A merge in which an entry that B had counted twice met the same entry
\* of A.
C37_Witness ==
    /\ mergeable
    /\ last.op = "merge"
    /\ \E e \in Pairs(last.pre) \cap Pairs(last.t) :
         \E j \in 1..Len(Items(last.t, <<>>)) :
            /\ Items(last.t, <<>>)[j].keys = e.keys
            /\ Items(last.t, <<>>)[j].value.data = e.data
            /\ Items(last.t, <<>>)[j].value.metadata = 2

\* The sequence s without its element at offset i.
Without(s, i) == [j \in 1..(Len(s) - 1) |-> IF j <= i THEN s[j] ELSE s[j + 1]]

\* The offsets of the children of node under the key k: none or one.
Under(node, k) == {i \in 0..(Len(node.m_children) - 1) : node.m_children[i + 1].first = k}

\* The leaf after of an add of value is the leaf before with the value put
\* in between its entries, or with nothing but the metadata of the one
\* entry that holds the same data changed.
LeafFrame(before, after, value) ==
    \/ \E i \in 0..(Len(after.m_data) - 1) :
            /\ after.m_data[i + 1] = value
            /\ Without(after.m_data, i) = before.m_data
    \/ /\ Len(after.m_data) = Len(before.m_data)
       /\ \E i \in 1..Len(after.m_data) :
            /\ before.m_data[i].data = value.data
            /\ after.m_data[i].data = value.data
            /\ \A j \in 1..Len(after.m_data) : j # i => after.m_data[j] = before.m_data[j]

RECURSIVE Frame(_, _, _, _)
\* The node after of an add of value under the key path ks is the node
\* before but for the child under the first key of ks: the other children
\* are the same subtrees in the same order, and the child on the path is
\* new or differs in the same way.
Frame(before, after, value, ks) ==
    IF ks = <<>> THEN LeafFrame(before, after, value)
    ELSE
        /\ Cardinality(Under(after, Head(ks))) = 1
        /\ \A i \in Under(after, Head(ks)) :
              IF Under(before, Head(ks)) = {}
              THEN Without(after.m_children, i) = before.m_children
              ELSE /\ Under(before, Head(ks)) = {i}
                   /\ Without(after.m_children, i) = Without(before.m_children, i)
                   /\ Frame(before.m_children[i + 1].second,
                            after.m_children[i + 1].second, value, Tail(ks))

\* C38: an add with key path p changes only what lies on p: every subtree
\* off the path keeps its keys, the order of its children, its sizes and
\* its entries; the children that were there keep their order; and in the
\* leaf that p reaches no entry but the matched one is changed or moved.
C38_AddChangesOnlyItsPath ==
    last.op = "add" => Frame(last.pre, kd, last.value, last.ks)

\* An add into a tree of two key levels that had elements under two keys
\* of the root.
C38_Witness ==
    /\ last.op = "add"
    /\ depth = 2
    /\ num_keys(last.pre) = 2
    /\ size(last.pre) >= 2

(***************************************************************************)
(* The limits of a range iterator at the root, under SpecIter.             *)
(***************************************************************************)

RECURSIVE HasValid(_, _)
\* An entry lies under T that the functions F, one per level, accept.
HasValid(T, F) ==
    IF IsLeaf(T) THEN T.m_data # <<>>
    ELSE \E j \in 1..Len(T.m_children) :
            /\ T.m_children[j].first \in F[1]
            /\ HasValid(T.m_children[j].second, Tail(F))

\* The offsets of the children of the root whose key F[1] accepts and
\* under which an entry lies that the functions of the levels below accept.
GoodChildren(T, F) ==
    {i \in 0..(num_keys(T) - 1) :
        /\ T.m_children[i + 1].first \in F[1]
        /\ HasValid(T.m_children[i + 1].second, Tail(F))}

Least(S) == CHOOSE i \in S : \A j \in S : i <= j
Greatest(S) == CHOOSE i \in S : \A j \in S : j <= i

\* The limits of the root level are those of the good children.
LimitsAreGood(T, F, lv) ==
    /\ lv[1].m_begin_idx = Least(GoodChildren(T, F))
    /\ lv[1].m_end_idx = Greatest(GoodChildren(T, F)) + 1
    /\ lv[1].m_begin_idx < lv[1].m_end_idx

\* C39: after a to_begin() or a to_end() of a range iterator that returned
\* true, m_begin_idx of the root level is the index of the first child
\* whose key passes the predicate and whose subtree holds a valid entry,
\* and m_end_idx one more than the index of the last such child; the two
\* calls compute the same pair, and m_begin_idx < m_end_idx.  The limits
\* stay as they are while the iterator is moved.
C39_LimitsAreFirstAndLast ==
    (iter.kind = "range" /\ depth >= 1) =>
        LET to_begin == rit_to_begin(kd, iter.F, iter.lv, 1)
            to_end == rit_to_end(kd, iter.F, iter.lv, 1)
        IN  /\ to_begin.ok = to_end.ok
            /\ to_begin.ok = (GoodChildren(kd, iter.F) # {})
            /\ to_begin.ok =>
                 /\ LimitsAreGood(kd, iter.F, to_begin.lv)
                 /\ LimitsAreGood(kd, iter.F, to_end.lv)
                 /\ Placed(iter) => LimitsAreGood(kd, iter.F, iter.lv)

\* A placed range iterator of a tree of two key levels with two keys at
\* the root: both are accepted, and under the second no entry is valid.
C39_Witness ==
    /\ iter.kind = "range" /\ Placed(iter)
    /\ depth = 2
    /\ num_keys(kd) = 2
    /\ GoodChildren(kd, iter.F) = {0}
    /\ kd.m_children[2].first \in iter.F[1]

(***************************************************************************)
(* Properties of search, under SpecSearch.                                 *)
(***************************************************************************)
\* The values searched: the data of the elements or the keys of the pairs.
Searched(T) ==
    IF IsLeaf(T) THEN [j \in 1..Len(T.m_data) |-> T.m_data[j].data]
    ELSE [j \in 1..Len(T.m_children) |-> T.m_children[j].first]

Occurrences(v, value) == Cardinality({j \in 1..Len(v) : v[j] = value})
Smaller(v, value) == Cardinality({j \in 1..Len(v) : v[j] < value})

C18_SearchResult ==
    last.op = "search" =>
        LET v == Searched(kd) IN
        /\ IF Occurrences(v, last.value) > 0
           THEN /\ last.ret[2]
                /\ last.ret[1] \in 0..(Len(v) - 1)
                /\ v[last.ret[1] + 1] = last.value
           ELSE last.ret = <<Smaller(v, last.value), FALSE>>
        /\ v = <<>> => last.ret = <<0, FALSE>>

C18_Witness ==
    /\ last.op = "search"
    /\ ~IsLeaf(kd)
    /\ Len(kd.m_children) > LinearThreshold
    /\ ~last.ret[2]
    /\ last.ret[1] \in 1..(Len(kd.m_children) - 1)

====
